---------------------------- MODULE Spec2Model ----------------------------
(***************************************************************************)
(* A model of the pairing / session handshake of yeying-web3               *)
(* (src/src/shared): the Pairing URI codec, the PairingManager and the     *)
(* SessionManager of two clients A (dapp, proposer) and B (wallet,         *)
(* responder) that talk over a publish/subscribe relay.                    *)
(*                                                                         *)
(* Strings are sequences of tokens.  A token is one character, or one of   *)
(* the literal words the codec itself writes ("wc", "relay-protocol",      *)
(* "symKey", "relay-data"), or one percent-escape ("%40").  The empty      *)
(* string '' is the empty sequence << >>.                                  *)
(***************************************************************************)
EXTENDS Integers, Sequences, FiniteSets, TLC

(***************************************************************************)
(* Bounds of the model.                                                    *)
(***************************************************************************)
\* longest topic / symKey string given to the URI codec
MaxStrLen == 2
\* key pairs generated in one run (all clients together)
MaxKeys == 4
\* messages waiting in one client's relay subscription queue
MaxInbox == 2
\* clock ticks of one run
MaxTicks == 1
\* sessions proposed in one run
MaxProposals == 1
\* requests made in one run
MaxRequests == 1
\* pairings one client creates in one run
MaxPairings == 1
\* sessions one client holds in a run of two proposals
MaxSessions == 2
\* calls and handlers of one client that wait at an await at one time
MaxRunning == 2
\* upsets of one run: failed publishes, lost messages, calls that throw,
\* calls that end a pairing, a proposal, a session or a client (reject,
\* delete, disconnect, destroy), and calls of the upkeep (update, ping)
MaxUpsets == 1
\* long sleeps of one run: each lets one pairing lifetime pass
MaxSleeps == 1

---------------------------------------------------------------------------
(***************************************************************************)
(* Generic string helpers (JavaScript String / Array semantics).           *)
(***************************************************************************)
\* all sequences over S of length 0..n
SeqsUpTo(S, n) == UNION {[1..k -> S] : k \in 0..n}

RECURSIVE IndexFrom(_, _, _)
\* String.prototype.indexOf: first position >= i of token c in s, 0 when absent
IndexFrom(s, c, i) ==
    IF i > Len(s) THEN 0
    ELSE IF s[i] = c THEN i
    ELSE IndexFrom(s, c, i + 1)

RECURSIVE Split(_, _)
\* String.prototype.split(c): the pieces of s between occurrences of c
Split(s, c) ==
    LET i == IndexFrom(s, c, 1)
    IN  IF i = 0 THEN <<s>>
        ELSE <<SubSeq(s, 1, i - 1)>> \o Split(SubSeq(s, i + 1, Len(s)), c)

\* const [a, b] = array : a missing element is undefined, modelled as << >>
\* (every use tests the element with !x, which is true of both)
Nth(arr, n) == IF n <= Len(arr) THEN arr[n] ELSE <<>>

---------------------------------------------------------------------------
(***************************************************************************)
(* URLSearchParams (application/x-www-form-urlencoded).                    *)
(***************************************************************************)
\* characters the serializer percent-encodes, with their escapes
Escapes == {<<"@", "%40">>, <<"?", "%3F">>, <<"&", "%26">>, <<"=", "%3D">>,
            <<"+", "%2B">>, <<":", "%3A">>, <<"%", "%25">>}

\* the serializer's byte encoding of one character
EncodeChar(c) ==
    IF c = " " THEN "+"
    ELSE IF \E e \in Escapes : e[1] = c
         THEN (CHOOSE e \in Escapes : e[1] = c)[2]
         ELSE c

\* the parser's decoding of one token
DecodeChar(t) ==
    IF t = "+" THEN " "
    ELSE IF \E e \in Escapes : e[2] = t
         THEN (CHOOSE e \in Escapes : e[2] = t)[1]
         ELSE t

FormEncode(s) == [i \in 1..Len(s) |-> EncodeChar(s[i])]
FormDecode(s) == [i \in 1..Len(s) |-> DecodeChar(s[i])]

RECURSIVE JoinPairs(_)
\* URLSearchParams.prototype.toString
JoinPairs(ps) ==
    IF ps = <<>> THEN <<>>
    ELSE LET one == FormEncode(Head(ps)[1]) \o <<"=">> \o FormEncode(Head(ps)[2])
         IN  IF Len(ps) = 1 THEN one
             ELSE one \o <<"&">> \o JoinPairs(Tail(ps))

\* new URLSearchParams(query): the list of <<name, value>> pairs
ParseQuery(q) ==
    LET q1     == IF q # <<>> /\ Head(q) = "?" THEN Tail(q) ELSE q
        pieces == SelectSeq(Split(q1, "&"), LAMBDA p : p # <<>>)
        pair(p) ==
            LET i == IndexFrom(p, "=", 1)
            IN  IF i = 0 THEN <<FormDecode(p), <<>>>>
                ELSE <<FormDecode(SubSeq(p, 1, i - 1)),
                       FormDecode(SubSeq(p, i + 1, Len(p)))>>
    IN  [k \in 1..Len(pieces) |-> pair(pieces[k])]

\* the value URLSearchParams.get returns when the name is absent
Null == <<"null">>

\* URLSearchParams.prototype.get: the first value of the name, or null
ParamGet(ps, name) ==
    LET hits == SelectSeq(ps, LAMBDA p : p[1] = name)
    IN  IF hits = <<>> THEN Null ELSE hits[1][2]

\* JavaScript !x for a string or null
Falsy(x) == x = <<>> \/ x = Null

---------------------------------------------------------------------------
(***************************************************************************)
(* Pairing URI codec  (src/src/shared/utils/pairing-uri.ts).               *)
(***************************************************************************)
PROTOCOL == "wc"
VERSION == 2

DigitChars == <<"0", "1", "2", "3", "4", "5", "6", "7", "8", "9">>

IsDigit(c) == \E d \in 1..10 : DigitChars[d] = c
DigitVal(c) == (CHOOSE d \in 1..10 : DigitChars[d] = c) - 1

RECURSIVE NumToStr(_)
\* `${n}` for a natural number
NumToStr(n) ==
    IF n < 10 THEN <<DigitChars[n + 1]>>
    ELSE NumToStr(n \div 10) \o <<DigitChars[(n % 10) + 1]>>

\* not-a-number
NaN == -1

RECURSIVE ParseDigits(_, _)
ParseDigits(s, acc) ==
    IF s = <<>> \/ ~IsDigit(Head(s)) THEN acc
    ELSE ParseDigits(Tail(s), acc * 10 + DigitVal(Head(s)))

RECURSIVE ParseInt(_)
\* parseInt(s, 10): leading blanks and one sign are skipped, the longest
\* prefix of digits is read, anything after it is ignored
ParseInt(s) ==
    IF s = <<>> THEN NaN
    ELSE IF Head(s) = " " THEN ParseInt(Tail(s))
    ELSE LET neg  == Head(s) = "-"
             body == IF Head(s) \in {"+", "-"} THEN Tail(s) ELSE s
         IN  IF body = <<>> \/ ~IsDigit(Head(body)) THEN NaN
             ELSE IF neg THEN 0 - ParseDigits(body, 0)
             ELSE ParseDigits(body, 0)

\* a relay descriptor {protocol, data?}; an absent data is << >>
Relay(protocol, data) == [protocol |-> protocol, data |-> data]

NoRelay == Relay(<<>>, <<>>)

EncodeOk(uri) == [ok |-> TRUE, uri |-> uri, error |-> "none"]
EncodeErr(e)  == [ok |-> FALSE, uri |-> <<>>, error |-> e]

\* EncodeParams with the two values written under each other's name
EncodeParamsSwapped(symKey, relay) ==
    JoinPairs(<< <<<<"relay-protocol">>, symKey>>,
                 <<<<"symKey">>, relay.protocol>> >>)

\* the query part: URLSearchParams({relay-protocol, symKey}) [+ relay-data]
EncodeParams(symKey, relay) ==
    JoinPairs(<< <<<<"relay-protocol">>, relay.protocol>>,
                 <<<<"symKey">>, symKey>> >>
              \o (IF relay.data # <<>>
                  THEN << <<<<"relay-data">>, relay.data>> >>
                  ELSE <<>>))

\* PairingURIUtil.encode(topic, symKey, relay)
Encode(topic, symKey, relay) ==
    IF topic = <<>> \/ symKey = <<>>
    THEN EncodeErr("Missing required parameters for URI encoding")
    ELSE EncodeOk(<<PROTOCOL, ":">> \o topic \o <<"@">> \o NumToStr(VERSION)
                  \o <<"?">> \o EncodeParams(symKey, relay))

DecodeOk(topic, version, symKey, relay) ==
    [ok |-> TRUE, topic |-> topic, version |-> version, symKey |-> symKey,
     relay |-> relay, error |-> "none"]
DecodeErr(e) ==
    [ok |-> FALSE, topic |-> <<>>, version |-> NaN, symKey |-> <<>>,
     relay |-> NoRelay, error |-> e]

\* the checks of decode on the query string, once topic and version are read
DecodeQuery(topic, version, queryString) ==
    LET params        == ParseQuery(queryString)
        relayProtocol == ParamGet(params, <<"relay-protocol">>)
        symKey        == ParamGet(params, <<"symKey">>)
        relayData     == ParamGet(params, <<"relay-data">>)
    IN  IF Falsy(relayProtocol) \/ Falsy(symKey)
        THEN DecodeErr("Missing required query parameters")
        ELSE DecodeOk(topic, version, symKey,
                      Relay(relayProtocol,
                            IF Falsy(relayData) THEN <<>> ELSE relayData))

\* the version check of decode
DecodeVersion(topic, versionStr, queryString) ==
    LET version == ParseInt(versionStr)
    IN  IF version # VERSION
        THEN DecodeErr("Unsupported version")
        ELSE DecodeQuery(topic, version, queryString)

\* PairingURIUtil.decode(uri)
Decode(uri) ==
    IF ~(Len(uri) >= 2 /\ uri[1] = PROTOCOL /\ uri[2] = ":")
    THEN DecodeErr("Invalid protocol")
    ELSE LET content      == SubSeq(uri, 3, Len(uri))
             parts        == Split(content, "?")
             topicVersion == Nth(parts, 1)
             queryString  == Nth(parts, 2)
             tv           == Split(topicVersion, "@")
             topic        == Nth(tv, 1)
             versionStr   == Nth(tv, 2)
         IN  IF topicVersion = <<>> \/ queryString = <<>>
             THEN DecodeErr("Invalid URI format")
             ELSE IF topic = <<>> \/ versionStr = <<>>
             THEN DecodeErr("Missing topic or version")
             ELSE DecodeVersion(topic, versionStr, queryString)

---------------------------------------------------------------------------
(***************************************************************************)
(* State.                                                                  *)
(***************************************************************************)
\* the two clients: A is the dapp (DappClient), B the wallet (WalletClient)
Engines == {"A", "B"}

\* the isWallet flag given to SessionManager.setPairingManager
IsWallet(e) == e = "B"

VARIABLES
    now,               \* Date.now(), in milliseconds, less the long sleeps
    slept,             \* long sleeps so far: Date.now() = slept * SleepStep + now
    nextKey,           \* key pairs generated so far (crypto randomness)
    initialized,       \* PairingManager.initialized, per client
    pstore,            \* PairingStore.cache: topic -> Pairing, per client
    symKeys,           \* PairingManager.symKeys: topic -> symKey
    topicCallbacks,    \* PairingManager.topicCallbacks: set of topics
    relaySubs,         \* WakuRelay.subscriptions: topic -> owner of the callback
    pendingApprovals,  \* PairingManager.pendingApprovals: topic -> timer deadline
    approval,          \* the promise create() returned as approval(), per topic
    inbox,             \* messages the relay still has to push to a client
    uris,              \* pairing URIs shown out of band (QR code / clipboard)
    events,            \* events emitted so far, per client
    last,              \* the operation of the last step, with its outcome
    codec,             \* the URI codec under test: its input and its outputs
    wired,             \* SessionManager listeners registered on the PairingManager
    sinit,             \* SessionManager.initialized, per client
    keyPairs,          \* CryptoManager.keyPairs: numbers of the cached key pairs
    nextId,            \* ids generated so far (generateId randomness)
    proposals,         \* SessionStore.proposals: proposalId -> SessionProposal
    sessions,          \* SessionStore.sessions: topic -> SessionData
    pendingRequests,   \* SessionManager.pendingRequests: id -> timer deadline
    response,          \* the promise request() returned, per request id
    returned,          \* values the session API calls returned, per client
    upsets,            \* failed publishes, lost messages and ending calls so far
    expiryTimer,       \* PairingManager.expiryTimer and the runtime's timer handles
    cleanupTimer,      \* SessionManager.cleanupTimer and the runtime's intervals
    running            \* the calls and handlers of a client that wait at an await

pairingVars == <<initialized, pstore, symKeys, topicCallbacks, relaySubs,
                 pendingApprovals, approval, uris>>

sessionVars == <<sinit, nextId, proposals, sessions, pendingRequests, response,
                 returned, cleanupTimer>>

vars == <<now, nextKey, keyPairs, wired, pairingVars, sessionVars, inbox,
          events, last, codec, upsets, expiryTimer, slept, running>>

(***************************************************************************)
(* Maps with a changing key set (JavaScript Map).                          *)
(***************************************************************************)
EmptyMap == <<>>
Put(f, k, v) == [x \in DOMAIN f \cup {k} |-> IF x = k THEN v ELSE f[x]]
Del(f, k) == [x \in DOMAIN f \ {k} |-> f[x]]

\* array without its i-th element
Without(s, i) == SubSeq(s, 1, i - 1) \o SubSeq(s, i + 1, Len(s))

RECURSIVE SetToSeq(_)
\* the elements of a finite set, as an array
SetToSeq(S) ==
    IF S = {} THEN <<>>
    ELSE LET x == CHOOSE y \in S : TRUE
         IN  <<x>> \o SetToSeq(S \ {x})

(***************************************************************************)
(* Crypto provider (CryptoManager): keys are hex strings "0x..".  The n-th *)
(* generated key pair has public key 0x<n> and private key 0xp<n>; the     *)
(* provider's randomness makes every generated key new.                    *)
(***************************************************************************)
PubKey(n) == <<"0", "x">> \o NumToStr(n)
PrivKey(n) == <<"0", "x", "p">> \o NumToStr(n)
\* generateSymmetricKey(): the n-th random key
SymKey(n) == <<"0", "x", "k">> \o NumToStr(n)
\* hash(data): SHA-256, injective on the strings of the model
Hash(data) == <<"0", "x", "h">> \o SubSeq(data, 3, Len(data))
\* the number of the key pair a public / private key string belongs to
PubNum(pub) == ParseDigits(SubSeq(pub, 3, Len(pub)), 0)
PrivNum(priv) == ParseDigits(SubSeq(priv, 4, Len(priv)), 0)
\* SharedKey that derives the secret from the own key pair alone
SharedKeyOwnOnly(priv, pub) == <<"0", "x", "d">> \o NumToStr(PrivNum(priv))

\* generateSharedKey(privateKey, peerPublicKey): the ECDH secret of the two
\* key pairs, rendered as hex; it is the same from either side
SharedKey(priv, pub) ==
    LET a == PrivNum(priv)
        b == PubNum(pub)
    IN  <<"0", "x", "d">> \o NumToStr(IF a < b THEN a ELSE b)
            \o <<"s">> \o NumToStr(IF a < b THEN b ELSE a)

(***************************************************************************)
(* Time.                                                                   *)
(***************************************************************************)
DEFAULT_EXPIRY == 30 * 24 * 60 * 60
APPROVAL_TIMEOUT == 5 * 60 * 1000
\* the clock moves in steps that pass one approval timeout
TickStep == APPROVAL_TIMEOUT + 1
MaxNow == MaxTicks * TickStep

\* Math.floor(Date.now() / 1000): a long sleep passes the lifetime of a
\* pairing, SleepStep = DEFAULT_EXPIRY * 1000 milliseconds
NowSeconds == slept * DEFAULT_EXPIRY + now \div 1000

\* Date.now() >= ms and Date.now() > ms, for a timestamp ms taken before the
\* first long sleep (every long sleep passes more than such a timestamp)
NowAtLeast(ms) == slept > 0 \/ now >= ms
NowPast(ms) == slept > 0 \/ now > ms

EXPIRY_CHECK_INTERVAL == 60 * 60 * 1000

\* the expiry timer of a client: the handles its runtime issued so far, the
\* handle kept in this.expiryTimer (0: undefined), and whether one interval
\* has passed since the timer was started or ran last
NoTimer == [issued |-> 0, handle |-> 0, due |-> FALSE]

\* startExpiryTimer(): the old interval is cleared, setInterval returns a
\* new handle
StartExpiryTimer(t) ==
    [issued |-> t.issued + 1, handle |-> t.issued + 1, due |-> FALSE]

\* stopExpiryTimer()
StopExpiryTimer(t) == [t EXCEPT !.handle = 0, !.due = FALSE]

\* the cleanup interval of a SessionManager: the handles the runtime issued,
\* the handle kept in this.cleanupTimer (0: null), the handles of the
\* intervals still armed, and whether an interval has elapsed
NoInterval == [issued |-> 0, handle |-> 0, armed |-> {}, due |-> FALSE]

\* startCleanupTimer(): setInterval, the handle is kept
StartCleanupTimer(t) ==
    [issued |-> t.issued + 1, handle |-> t.issued + 1,
     armed |-> t.armed \cup {t.issued + 1}, due |-> t.due]

\* StopCleanupTimer that forgets the handle and clears nothing
StopCleanupTimerLeaks(t) == [t EXCEPT !.handle = 0]

\* stopCleanupTimer(): clearInterval of the kept handle
StopCleanupTimer(t) ==
    [t EXCEPT !.handle = 0, !.armed = @ \ {t.handle},
              !.due = t.due /\ (t.armed \ {t.handle}) # {}]

(***************************************************************************)
(* Pairing records and the PairingStore.                                   *)
(***************************************************************************)
PENDING == "pending"
ACTIVE == "active"

DEFAULT_RELAY == Relay(<<"i", "r", "n">>, <<>>)

\* the appMetadata a PairingManager is constructed with, and another one
DefaultAppMetadata == <<"app">>
AppMetadataOptions == {<<"app", "renamed">>}

NoPairing ==
    [topic |-> <<>>, relay |-> NoRelay, self |-> <<>>, peer |-> <<>>,
     status |-> "none", expiry |-> 0, initiator |-> FALSE,
     appMetadata |-> Null, peerAppMetadata |-> Null]

\* PairingStore.isExpired
StoreExpired(p) == p.expiry < NowSeconds

\* does PairingStore.get(topic) return a record
StoreHas(st, topic) == topic \in DOMAIN st /\ ~StoreExpired(st[topic])

\* the cache after PairingStore.get(topic): an expired record is deleted
StoreAfterGet(st, topic) ==
    IF topic \in DOMAIN st /\ StoreExpired(st[topic]) THEN Del(st, topic) ELSE st

\* PairingStore.getAll(): the topics of the records that are not expired
StoreAll(st) == {t \in DOMAIN st : ~StoreExpired(st[t])}

(***************************************************************************)
(* Events and operation outcomes.                                          *)
(***************************************************************************)
Ev(name, topic, id, self, peer, extra) ==
    [name |-> name, topic |-> topic, id |-> id, self |-> self, peer |-> peer,
     extra |-> extra]

PairingEv(name, p) == Ev(name, p.topic, 0, p.self, p.peer, <<>>)
TopicEv(name, topic) == Ev(name, topic, 0, <<>>, <<>>, <<>>)

Emit(e, evs) == events' = [events EXCEPT ![e] = @ \cup evs]

Idle == [op |-> "none", e |-> "none", ok |-> TRUE, error |-> "none"]

Pending == [state |-> "pending", pairing |-> NoPairing, error |-> "none"]
Resolved(p) == [state |-> "resolved", pairing |-> p, error |-> "none"]
Rejected(err) == [state |-> "rejected", pairing |-> NoPairing, error |-> err]

(***************************************************************************)
(* The relay: publish pushes the message to the other clients subscribed   *)
(* to the topic; a queue that is full loses the message.                   *)
(***************************************************************************)
Msg(topic, method, params) == [topic |-> topic, method |-> method, params |-> params]

\* payloads a client never sends: text that is no JSON, JSON with a method
\* no client knows, and JSON of a known method without params
NoParams == [missing |-> TRUE]
InvalidJSON == "not json"
UnknownMethod == "wc_unknown"

\* the subscriptions of the clients other than the publisher e
Peers(e, subs) == [subs EXCEPT ![e] = EmptyMap]

Publish(box, subs, m) ==
    [e \in Engines |->
        IF m.topic \in DOMAIN subs[e] /\ Len(box[e]) < MaxInbox
        THEN Append(box[e], m)
        ELSE box[e]]

RECURSIVE PublishAll(_, _, _)
PublishAll(box, subs, ms) ==
    IF ms = <<>> THEN box
    ELSE PublishAll(Publish(box, subs, Head(ms)), subs, Tail(ms))

\* the relay pushes the messages of one topic in the order it got them
Deliverable(e, i) ==
    /\ i \in 1..Len(inbox[e])
    /\ \A j \in 1..(i - 1) : inbox[e][j].topic # inbox[e][i].topic

---------------------------------------------------------------------------
(***************************************************************************)
(* PairingManager  (src/src/shared/core/CryptoManager.ts, lines 264-1204).  *)
(***************************************************************************)
\* PairingManager.isExpired
IsExpired(p) == NowSeconds >= p.expiry

\* PairingManager.subscribe: WakuRelay.subscribe keeps a callback that is
\* already registered for the topic
Subscribed(subs, topic, owner) ==
    IF topic \in DOMAIN subs THEN subs ELSE Put(subs, topic, owner)

\* CleanupPairing that leaves the record in the store
CleanupPairingKeepsRecord(e, topic) ==
    /\ pstore' = pstore
    /\ relaySubs' = [relaySubs EXCEPT ![e] = Del(@, topic)]
    /\ topicCallbacks' = [topicCallbacks EXCEPT ![e] = @ \ {topic}]
    /\ symKeys' = [symKeys EXCEPT ![e] = Del(@, topic)]

\* PairingManager.cleanupPairing: store.delete, unsubscribe, symKeys.delete
CleanupPairing(e, topic) ==
    /\ pstore' = [pstore EXCEPT ![e] = Del(@, topic)]
    /\ relaySubs' = [relaySubs EXCEPT ![e] = Del(@, topic)]
    /\ topicCallbacks' = [topicCallbacks EXCEPT ![e] = @ \ {topic}]
    /\ symKeys' = [symKeys EXCEPT ![e] = Del(@, topic)]

\* the pairings restorePendingPairings removes: expired, or ACTIVE without symKey
RestoreRemoves(e) ==
    {t \in StoreAll(pstore[e]) :
        \/ IsExpired(pstore[e][t])
        \/ pstore[e][t].status = ACTIVE /\ t \notin DOMAIN symKeys[e]}

\* the pairings restorePendingPairings subscribes again
RestoreSubscribes(e) ==
    {t \in StoreAll(pstore[e]) \ RestoreRemoves(e) : pstore[e][t].status = ACTIVE}

\* AlreadyInitialized that never returns early
AlreadyInitializedNever(e) == FALSE

\* the early return of initialize() (line 304)
AlreadyInitialized(e) == initialized[e]

\* PairingManager.initialize(): restorePendingPairings, startExpiryTimer
Initialize(e) ==
    /\ IF AlreadyInitialized(e)
       THEN UNCHANGED <<pstore, symKeys, topicCallbacks, relaySubs, initialized,
                        expiryTimer>>
       ELSE /\ pstore' = [pstore EXCEPT ![e] =
                            [t \in DOMAIN @ \ RestoreRemoves(e) |-> @[t]]]
            /\ symKeys' = [symKeys EXCEPT ![e] =
                            [t \in DOMAIN @ \ RestoreRemoves(e) |-> @[t]]]
            /\ topicCallbacks' = [topicCallbacks EXCEPT ![e] =
                            (@ \ RestoreRemoves(e)) \cup RestoreSubscribes(e)]
            /\ relaySubs' = [relaySubs EXCEPT ![e] =
                            [t \in (DOMAIN @ \ RestoreRemoves(e))
                                       \cup RestoreSubscribes(e) |->
                                IF t \in DOMAIN @ THEN @[t] ELSE "pairing"]]
            /\ expiryTimer' = [expiryTimer EXCEPT ![e] = StartExpiryTimer(@)]
            /\ initialized' = [initialized EXCEPT ![e] = TRUE]
    /\ last' = [op |-> "initialize", e |-> e, ok |-> TRUE, error |-> "none",
                again |-> initialized[e]]
    /\ UNCHANGED <<now, slept, running, nextKey, keyPairs, wired, pendingApprovals,
                   approval, uris, sessionVars, inbox, events, codec>>

\* the Pairing create() builds (lines 355-374)
CreatedPairing(topic, pub) ==
    [topic |-> topic, relay |-> DEFAULT_RELAY, self |-> pub, peer |-> <<>>,
     status |-> PENDING, expiry |-> NowSeconds + DEFAULT_EXPIRY,
     initiator |-> TRUE, appMetadata |-> DefaultAppMetadata,
     peerAppMetadata |-> Null]

\* PairingManager.create()
Create(e) ==
    /\ initialized[e]
    /\ ~IsWallet(e)
    /\ nextKey < MaxKeys
    /\ Cardinality(DOMAIN approval[e]) < MaxPairings
    /\ now + APPROVAL_TIMEOUT <= MaxNow
    /\ LET n       == nextKey + 1
           topic   == Hash(PubKey(n))
           pairing == CreatedPairing(topic, PubKey(n))
           uri     == Encode(topic, SymKey(n), pairing.relay)
       IN  /\ nextKey' = n
           /\ keyPairs' = [keyPairs EXCEPT ![e] = @ \cup {n}]
           /\ pstore' = [pstore EXCEPT ![e] = Put(@, topic, pairing)]
           /\ symKeys' = [symKeys EXCEPT ![e] = Put(@, topic, SymKey(n))]
           /\ topicCallbacks' = [topicCallbacks EXCEPT ![e] = @ \cup {topic}]
           /\ relaySubs' = [relaySubs EXCEPT ![e] = Subscribed(@, topic, "pairing")]
           /\ uris' = uris \cup {uri.uri}
           /\ pendingApprovals' = [pendingApprovals EXCEPT ![e] =
                                     Put(@, topic, now + APPROVAL_TIMEOUT)]
           /\ approval' = [approval EXCEPT ![e] = Put(@, topic, Pending)]
           /\ Emit(e, {PairingEv("pairing_created", pairing)})
           /\ last' = [op |-> "create", e |-> e, ok |-> TRUE, error |-> "none",
                       topic |-> topic, uri |-> uri.uri]
    /\ UNCHANGED <<now, wired, initialized, sessionVars, inbox, codec>>

\* the Pairing activate() builds (lines 446-467)
ActivatedPairing(parsed, pub) ==
    [topic |-> parsed.topic, relay |-> parsed.relay, self |-> pub, peer |-> <<>>,
     status |-> ACTIVE, expiry |-> NowSeconds + DEFAULT_EXPIRY,
     initiator |-> FALSE, appMetadata |-> Null, peerAppMetadata |-> Null]

\* the wc_pairingApprove message activate() publishes (lines 472-488)
ApproveMessage(pairing) ==
    Msg(pairing.topic, "wc_pairingApprove",
        [relay |-> pairing.relay, responder |-> pairing.self,
         expiry |-> pairing.expiry])

\* AlreadyExists that never finds a record
AlreadyExistsNever(e, topic) == FALSE

\* the check of activate() for an existing record (lines 431-434)
AlreadyExists(e, topic) == StoreHas(pstore[e], topic)

\* ActivateUndone that leaves the record in the store
ActivateUndoneNot(st, topic) == st

\* the store after the catch block of activate(): store.delete (line 497)
ActivateUndone(st, topic) == Del(st, topic)

\* PairingManager.activate({uri}) from its start (fresh) or from the await of
\* generateKeyPair, the check for an existing record behind it; pubOk: does
\* relay.publish succeed
ActivateFrom(fresh, e, uri, pubOk) ==
    /\ initialized[e]
    /\ IsWallet(e)
    /\ LET parsed == Decode(uri)
       IN  IF ~parsed.ok
           THEN /\ pubOk
                /\ last' = [op |-> "activate", e |-> e, ok |-> FALSE,
                            error |-> "Failed to parse URI", uri |-> uri]
                /\ UNCHANGED <<nextKey, keyPairs, pairingVars, inbox, events>>
           ELSE IF fresh /\ AlreadyExists(e, parsed.topic)
           THEN /\ pubOk
                /\ last' = [op |-> "activate", e |-> e, ok |-> FALSE,
                            error |-> "Pairing already exists", uri |-> uri]
                /\ UNCHANGED <<nextKey, keyPairs, pairingVars, inbox, events>>
           ELSE /\ nextKey < MaxKeys
                /\ LET n       == nextKey + 1
                       pairing == ActivatedPairing(parsed, PubKey(n))
                       subs    == [relaySubs EXCEPT ![e] =
                                     Subscribed(@, parsed.topic, "pairing")]
                   IN  /\ nextKey' = n
                       /\ keyPairs' = [keyPairs EXCEPT ![e] = @ \cup {n}]
                       /\ symKeys' = [symKeys EXCEPT ![e] =
                                        Put(@, parsed.topic, parsed.symKey)]
                       /\ topicCallbacks' = [topicCallbacks EXCEPT ![e] =
                                               @ \cup {parsed.topic}]
                       /\ relaySubs' = subs
                       /\ IF pubOk
                          THEN /\ pstore' = [pstore EXCEPT ![e] =
                                               Put(@, parsed.topic, pairing)]
                               /\ inbox' = Publish(inbox, Peers(e, subs),
                                                ApproveMessage(pairing))
                               /\ Emit(e, {PairingEv("pairing_activated", pairing)})
                               /\ last' = [op |-> "activate", e |-> e, ok |-> TRUE,
                                           error |-> "none", uri |-> uri,
                                           topic |-> parsed.topic]
                          ELSE /\ pstore' = [pstore EXCEPT ![e] =
                                               ActivateUndone(
                                                   Put(@, parsed.topic, pairing),
                                                   parsed.topic)]
                               /\ last' = [op |-> "activate", e |-> e, ok |-> FALSE,
                                           error |-> "Failed to publish message",
                                           uri |-> uri]
                               /\ UNCHANGED <<inbox, events>>
                       /\ UNCHANGED <<initialized, pendingApprovals, approval, uris>>
    /\ UNCHANGED <<now, wired, sessionVars, codec>>

\* PairingManager.activate({uri}) that no other call or message interrupts
Activate(e, uri, pubOk) == ActivateFrom(TRUE, e, uri, pubOk)

\* a call or handler that waits at an await, with what it has read so far
Waiting(op, topic, arg) == [op |-> op, topic |-> topic, arg |-> arg]

\* activate() up to its first await of the runtime: the URI is decoded, no
\* record of the topic is found, generateKeyPair is awaited (lines 427-438)
ActivateBegin(e, uri) ==
    /\ initialized[e]
    /\ IsWallet(e)
    /\ Len(running[e]) < MaxRunning
    /\ Decode(uri).ok
    /\ ~AlreadyExists(e, Decode(uri).topic)
    /\ running' = [running EXCEPT ![e] =
                     Append(@, Waiting("activate", Decode(uri).topic, uri))]
    /\ last' = [op |-> "activateBegin", e |-> e, ok |-> TRUE, error |-> "none",
                uri |-> uri]
    /\ UNCHANGED <<now, nextKey, keyPairs, wired, pairingVars, sessionVars,
                   inbox, events, codec>>

\* the rest of that activate(), from the key pair to the return (lines 438-499)
ActivateEnd(e, k, pubOk) ==
    /\ k \in 1..Len(running[e])
    /\ running[e][k].op = "activate"
    /\ ActivateFrom(FALSE, e, running[e][k].arg, pubOk)
    /\ running' = [running EXCEPT ![e] = Without(@, k)]

\* the message a client's PairingManager callback is handed: the i-th queued
\* message, its topic still subscribed by the PairingManager
PairingMessage(e, i, method) ==
    /\ Deliverable(e, i)
    /\ inbox[e][i].method = method
    /\ inbox[e][i].params # NoParams
    /\ inbox[e][i].topic \in DOMAIN relaySubs[e]
    /\ relaySubs[e][inbox[e][i].topic] = "pairing"

\* A pushed message nobody handles: the topic is no longer subscribed, or
\* handleRelayMessage finds no pairing for it ("unknown topic", lines 824-828)
DeliverDropped(e, i) ==
    /\ Deliverable(e, i)
    /\ LET m == inbox[e][i]
       IN  /\ IF m.topic \in DOMAIN relaySubs[e]
              THEN /\ relaySubs[e][m.topic] = "pairing"
                   /\ ~StoreHas(pstore[e], m.topic)
                   /\ m.params # NoParams
              ELSE TRUE
           /\ pstore' = [pstore EXCEPT ![e] =
                           IF m.topic \in DOMAIN relaySubs[e]
                           THEN StoreAfterGet(@, m.topic) ELSE @]
           /\ last' = [op |-> "dropped", e |-> e, ok |-> TRUE, error |-> "none",
                       topic |-> m.topic, method |-> m.method]
    /\ inbox' = [inbox EXCEPT ![e] = Without(@, i)]
    /\ UNCHANGED <<now, nextKey, keyPairs, wired, initialized, symKeys,
                   topicCallbacks, relaySubs, pendingApprovals, approval, uris,
                   sessionVars, events, codec>>

\* the relay loses a message (delivery is at most once)
Lose(e, i) ==
    /\ Deliverable(e, i)
    /\ inbox' = [inbox EXCEPT ![e] = Without(@, i)]
    /\ last' = [op |-> "lose", e |-> e, ok |-> TRUE, error |-> "none",
                topic |-> inbox[e][i].topic, method |-> inbox[e][i].method]
    /\ UNCHANGED <<now, nextKey, keyPairs, wired, pairingVars, sessionVars,
                   events, codec>>

\* ApprovedPairing that forgets the responder's key
ApprovedPairingNoPeer(p, params) ==
    [p EXCEPT !.status = ACTIVE, !.expiry = params.expiry]

\* the record approve() stores (lines 519-523)
ApprovedPairing(p, params) ==
    [p EXCEPT !.peer = params.responder, !.status = ACTIVE,
              !.expiry = params.expiry]

\* the waiter map after approve() / reject() settled the waiter of the topic
WaiterSettled(waiters, topic) == Del(waiters, topic)

\* the approval promise after approve() resolved it (lines 528-534)
ApprovalResolved(e, topic, p) ==
    IF topic \in DOMAIN pendingApprovals[e]
    THEN [approval EXCEPT ![e] = Put(@, topic, Resolved(p))]
    ELSE approval

\* the approval promise after a reject with the reason (lines 575-581, 905-911)
ApprovalRejected(e, topic, reason) ==
    IF topic \in DOMAIN pendingApprovals[e]
    THEN [approval EXCEPT ![e] = Put(@, topic, Rejected(reason))]
    ELSE approval

\* NotPending that lets every APPROVE through
NotPendingNever(p) == FALSE

\* the guard of approve() against a duplicate or late APPROVE (line 514)
NotPending(p) == p.status # PENDING

\* handleRelayMessage -> handleApprove -> approve(topic, params)
HandleApprove(e, i) ==
    /\ PairingMessage(e, i, "wc_pairingApprove")
    /\ StoreHas(pstore[e], inbox[e][i].topic)
    /\ LET m == inbox[e][i]
           t == m.topic
           p == pstore[e][t]
       IN  IF NotPending(p)
           THEN /\ last' = [op |-> "handleApprove", e |-> e, ok |-> TRUE,
                            error |-> "none", topic |-> t, applied |-> FALSE,
                            waiting |-> FALSE]
                /\ UNCHANGED <<pstore, pendingApprovals, approval, events>>
           ELSE /\ pstore' = [pstore EXCEPT ![e] =
                                Put(@, t, ApprovedPairing(p, m.params))]
                /\ approval' = ApprovalResolved(e, t, ApprovedPairing(p, m.params))
                /\ pendingApprovals' = [pendingApprovals EXCEPT ![e] =
                                          WaiterSettled(@, t)]
                /\ Emit(e, {PairingEv("pairing_approved",
                                      ApprovedPairing(p, m.params))})
                /\ last' = [op |-> "handleApprove", e |-> e, ok |-> TRUE,
                            error |-> "none", topic |-> t, applied |-> TRUE,
                            waiting |-> t \in DOMAIN pendingApprovals[e],
                            responder |-> m.params.responder]
    /\ inbox' = [inbox EXCEPT ![e] = Without(@, i)]
    /\ UNCHANGED <<now, nextKey, keyPairs, wired, initialized, symKeys,
                   topicCallbacks, relaySubs, uris, sessionVars, codec>>

\* handleRelayMessage -> handleReject(topic, params)
HandleReject(e, i) ==
    /\ PairingMessage(e, i, "wc_pairingReject")
    /\ StoreHas(pstore[e], inbox[e][i].topic)
    /\ LET m == inbox[e][i]
       IN  /\ CleanupPairing(e, m.topic)
           /\ approval' = ApprovalRejected(e, m.topic, m.params.reason)
           /\ pendingApprovals' = [pendingApprovals EXCEPT ![e] =
                                     WaiterSettled(@, m.topic)]
           /\ Emit(e, {TopicEv("pairing_rejected", m.topic)})
           /\ last' = [op |-> "handleReject", e |-> e, ok |-> TRUE,
                       error |-> "none", topic |-> m.topic]
    /\ inbox' = [inbox EXCEPT ![e] = Without(@, i)]
    /\ UNCHANGED <<now, nextKey, keyPairs, wired, initialized, uris, sessionVars,
                   codec>>

\* handleRelayMessage -> handleDelete(topic, params)
HandleDelete(e, i) ==
    /\ PairingMessage(e, i, "wc_pairingDelete")
    /\ StoreHas(pstore[e], inbox[e][i].topic)
    /\ LET m == inbox[e][i]
       IN  /\ CleanupPairing(e, m.topic)
           /\ Emit(e, {TopicEv("pairing_deleted", m.topic)})
           /\ last' = [op |-> "handleDelete", e |-> e, ok |-> TRUE,
                       error |-> "none", topic |-> m.topic]
    /\ inbox' = [inbox EXCEPT ![e] = Without(@, i)]
    /\ UNCHANGED <<now, nextKey, keyPairs, wired, initialized, pendingApprovals,
                   approval, uris, sessionVars, codec>>

\* pairing topics a caller can name: those create() returned to it and
\* those of its store
KnownTopics(e) == DOMAIN approval[e] \cup DOMAIN pstore[e]

\* PairingManager.reject(topic, reason); pubOk: does relay.publish succeed
PairingReject(e, topic, pubOk) ==
    /\ initialized[e]
    /\ topic \in KnownTopics(e)
    /\ IF ~StoreHas(pstore[e], topic)
       THEN /\ pubOk
            /\ pstore' = [pstore EXCEPT ![e] = StoreAfterGet(@, topic)]
            /\ last' = [op |-> "reject", e |-> e, ok |-> FALSE,
                        error |-> "Pairing not found", topic |-> topic,
                        existed |-> FALSE, sent |-> FALSE]
            /\ UNCHANGED <<symKeys, topicCallbacks, relaySubs, pendingApprovals,
                           approval, inbox, events>>
       ELSE IF ~pubOk
       THEN /\ last' = [op |-> "reject", e |-> e, ok |-> FALSE,
                        error |-> "Failed to publish message", topic |-> topic,
                        existed |-> TRUE, sent |-> FALSE]
            /\ UNCHANGED <<pstore, symKeys, topicCallbacks, relaySubs,
                           pendingApprovals, approval, inbox, events>>
       ELSE /\ inbox' = Publish(inbox, Peers(e, relaySubs),
                                Msg(topic, "wc_pairingReject",
                                    [reason |-> "rejected"]))
            /\ CleanupPairing(e, topic)
            /\ approval' = ApprovalRejected(e, topic, "rejected")
            /\ pendingApprovals' = [pendingApprovals EXCEPT ![e] =
                                      WaiterSettled(@, topic)]
            /\ Emit(e, {TopicEv("pairing_rejected", topic)})
            /\ last' = [op |-> "reject", e |-> e, ok |-> TRUE, error |-> "none",
                        topic |-> topic, existed |-> TRUE, sent |-> TRUE]
    /\ UNCHANGED <<now, nextKey, keyPairs, wired, initialized, uris, sessionVars,
                   codec>>

\* PairingManager.delete(topic, reason); a failed publish is swallowed
PairingDelete(e, topic, pubOk) ==
    /\ initialized[e]
    /\ topic \in KnownTopics(e)
    /\ IF ~StoreHas(pstore[e], topic)
       THEN /\ pubOk
            /\ pstore' = [pstore EXCEPT ![e] = StoreAfterGet(@, topic)]
            /\ UNCHANGED <<symKeys, topicCallbacks, relaySubs, inbox, events>>
       ELSE /\ inbox' = IF pubOk
                        THEN Publish(inbox, Peers(e, relaySubs),
                                     Msg(topic, "wc_pairingDelete",
                                         [reason |-> "deleted"]))
                        ELSE inbox
            /\ CleanupPairing(e, topic)
            /\ Emit(e, {TopicEv("pairing_deleted", topic)})
    /\ last' = [op |-> "delete", e |-> e, ok |-> TRUE, error |-> "none",
                topic |-> topic, existed |-> StoreHas(pstore[e], topic),
                sent |-> pubOk /\ StoreHas(pstore[e], topic)]
    /\ UNCHANGED <<now, nextKey, keyPairs, wired, initialized, pendingApprovals,
                   approval, uris, sessionVars, codec>>

\* reject() up to the await of relay.publish, whose send succeeds: the
\* pairing is found and the REJECT sent (lines 552-573)
PairingRejectBegin(e, topic) ==
    /\ initialized[e]
    /\ StoreHas(pstore[e], topic)
    /\ Len(running[e]) < MaxRunning
    /\ inbox' = Publish(inbox, Peers(e, relaySubs),
                        Msg(topic, "wc_pairingReject", [reason |-> "rejected"]))
    /\ running' = [running EXCEPT ![e] = Append(@, Waiting("reject", topic, <<>>))]
    /\ last' = [op |-> "rejectBegin", e |-> e, ok |-> TRUE, error |-> "none",
                topic |-> topic]
    /\ UNCHANGED <<now, nextKey, keyPairs, wired, pairingVars, sessionVars,
                   events, codec>>

\* the rest of reject(): cleanupPairing, the waiter rejected if one is left,
\* REJECTED emitted (lines 575-587)
PairingRejectEnd(e, k) ==
    /\ k \in 1..Len(running[e])
    /\ running[e][k].op = "reject"
    /\ LET topic == running[e][k].topic
       IN  /\ CleanupPairing(e, topic)
           /\ approval' = ApprovalRejected(e, topic, "rejected")
           /\ pendingApprovals' = [pendingApprovals EXCEPT ![e] =
                                     WaiterSettled(@, topic)]
           /\ Emit(e, {TopicEv("pairing_rejected", topic)})
           /\ last' = [op |-> "rejectEnd", e |-> e, ok |-> TRUE, error |-> "none",
                       topic |-> topic]
    /\ running' = [running EXCEPT ![e] = Without(@, k)]
    /\ UNCHANGED <<now, nextKey, keyPairs, wired, initialized, uris, sessionVars,
                   inbox, codec>>

\* delete() up to the await of relay.publish: the pairing is found and the
\* DELETE sent, a failure swallowed (lines 596-620)
PairingDeleteBegin(e, topic, pubOk) ==
    /\ initialized[e]
    /\ StoreHas(pstore[e], topic)
    /\ Len(running[e]) < MaxRunning
    /\ inbox' = IF pubOk
                THEN Publish(inbox, Peers(e, relaySubs),
                             Msg(topic, "wc_pairingDelete", [reason |-> "deleted"]))
                ELSE inbox
    /\ running' = [running EXCEPT ![e] = Append(@, Waiting("delete", topic, <<>>))]
    /\ last' = [op |-> "deleteBegin", e |-> e, ok |-> TRUE, error |-> "none",
                topic |-> topic]
    /\ UNCHANGED <<now, nextKey, keyPairs, wired, pairingVars, sessionVars,
                   events, codec>>

\* the rest of delete(): cleanupPairing, DELETED emitted (lines 622-628)
PairingDeleteEnd(e, k) ==
    /\ k \in 1..Len(running[e])
    /\ running[e][k].op = "delete"
    /\ LET topic == running[e][k].topic
       IN  /\ CleanupPairing(e, topic)
           /\ Emit(e, {TopicEv("pairing_deleted", topic)})
           /\ last' = [op |-> "deleteEnd", e |-> e, ok |-> TRUE, error |-> "none",
                       topic |-> topic]
    /\ running' = [running EXCEPT ![e] = Without(@, k)]
    /\ UNCHANGED <<now, nextKey, keyPairs, wired, initialized, pendingApprovals,
                   approval, uris, sessionVars, inbox, codec>>

\* ApprovalTimedOut that leaves the promise as it is
ApprovalTimedOutSilent(e, topic) == approval

\* the approval promise after its timer ran (lines 395-400)
ApprovalTimedOut(e, topic) ==
    [approval EXCEPT ![e] = Put(@, topic, Rejected("Pairing approval timeout"))]

\* the approval timer of create() fires (lines 395-401)
ApprovalTimeout(e, topic) ==
    /\ topic \in DOMAIN pendingApprovals[e]
    /\ now >= pendingApprovals[e][topic]
    /\ pendingApprovals' = [pendingApprovals EXCEPT ![e] = Del(@, topic)]
    /\ CleanupPairing(e, topic)
    /\ approval' = ApprovalTimedOut(e, topic)
    /\ last' = [op |-> "approvalTimeout", e |-> e, ok |-> TRUE, error |-> "none",
                topic |-> topic]
    /\ UNCHANGED <<now, nextKey, keyPairs, wired, initialized, uris, sessionVars,
                   inbox, events, codec>>

\* NotActive that lets every pairing through
NotActiveNever(p) == FALSE

\* the guard of update(), forward() and ping() (lines 650, 696, 727)
NotActive(p) == p.status # ACTIVE

\* the Pairing after update() resp. handleUpdate() wrote the metadata
UpdatedSelf(p, appMetadata) == [p EXCEPT !.appMetadata = appMetadata]
UpdatedPeer(p, appMetadata) == [p EXCEPT !.peerAppMetadata = appMetadata]

\* the pairing_updated event, carrying the Pairing's metadata
UpdatedEv(p) ==
    Ev("pairing_updated", p.topic, 0, p.self, p.peer,
       <<p.appMetadata, p.peerAppMetadata>>)

\* PairingManager.update(topic, appMetadata)
Update(e, topic, appMetadata, pubOk) ==
    /\ initialized[e]
    /\ topic \in KnownTopics(e)
    /\ IF ~StoreHas(pstore[e], topic)
       THEN /\ pubOk
            /\ pstore' = [pstore EXCEPT ![e] = StoreAfterGet(@, topic)]
            /\ last' = [op |-> "update", e |-> e, ok |-> FALSE,
                        error |-> "Pairing not found", topic |-> topic]
            /\ UNCHANGED <<inbox, events>>
       ELSE IF NotActive(pstore[e][topic])
       THEN /\ pubOk
            /\ last' = [op |-> "update", e |-> e, ok |-> FALSE,
                        error |-> "Pairing is not active", topic |-> topic]
            /\ UNCHANGED <<pstore, inbox, events>>
       ELSE LET pairing == UpdatedSelf(pstore[e][topic], appMetadata)
            IN  /\ pstore' = [pstore EXCEPT ![e] = Put(@, topic, pairing)]
                /\ IF pubOk
                   THEN /\ inbox' = Publish(inbox, Peers(e, relaySubs),
                                            Msg(topic, "wc_pairingUpdate",
                                                [appMetadata |-> appMetadata]))
                        /\ Emit(e, {UpdatedEv(pairing)})
                        /\ last' = [op |-> "update", e |-> e, ok |-> TRUE,
                                    error |-> "none", topic |-> topic]
                   ELSE /\ last' = [op |-> "update", e |-> e, ok |-> FALSE,
                                    error |-> "Failed to publish message",
                                    topic |-> topic]
                        /\ UNCHANGED <<inbox, events>>
    /\ UNCHANGED <<now, nextKey, keyPairs, wired, initialized, symKeys,
                   topicCallbacks, relaySubs, pendingApprovals, approval, uris,
                   sessionVars, codec>>

\* PairingManager.ping(topic)
Ping(e, topic, pubOk) ==
    /\ initialized[e]
    /\ topic \in KnownTopics(e)
    /\ pstore' = [pstore EXCEPT ![e] = StoreAfterGet(@, topic)]
    /\ IF ~StoreHas(pstore[e], topic)
       THEN /\ pubOk
            /\ last' = [op |-> "ping", e |-> e, ok |-> FALSE,
                        error |-> "Pairing not found", topic |-> topic]
            /\ UNCHANGED inbox
       ELSE IF NotActive(pstore[e][topic])
       THEN /\ pubOk
            /\ last' = [op |-> "ping", e |-> e, ok |-> FALSE,
                        error |-> "Pairing is not active", topic |-> topic]
            /\ UNCHANGED inbox
       ELSE IF ~pubOk
       THEN /\ last' = [op |-> "ping", e |-> e, ok |-> FALSE,
                        error |-> "Failed to publish message", topic |-> topic]
            /\ UNCHANGED inbox
       ELSE /\ inbox' = Publish(inbox, Peers(e, relaySubs),
                                Msg(topic, "wc_pairingPing", <<>>))
            /\ last' = [op |-> "ping", e |-> e, ok |-> TRUE, error |-> "none",
                        topic |-> topic]
    /\ UNCHANGED <<now, nextKey, keyPairs, wired, initialized, symKeys,
                   topicCallbacks, relaySubs, pendingApprovals, approval, uris,
                   sessionVars, events, codec>>

\* handleRelayMessage -> handleUpdate(topic, params)
HandleUpdate(e, i) ==
    /\ PairingMessage(e, i, "wc_pairingUpdate")
    /\ StoreHas(pstore[e], inbox[e][i].topic)
    /\ LET m       == inbox[e][i]
           pairing == UpdatedPeer(pstore[e][m.topic], m.params.appMetadata)
       IN  /\ pstore' = [pstore EXCEPT ![e] = Put(@, m.topic, pairing)]
           /\ Emit(e, {UpdatedEv(pairing)})
           /\ last' = [op |-> "handleUpdate", e |-> e, ok |-> TRUE,
                       error |-> "none", topic |-> m.topic]
    /\ inbox' = [inbox EXCEPT ![e] = Without(@, i)]
    /\ UNCHANGED <<now, nextKey, keyPairs, wired, initialized, symKeys,
                   topicCallbacks, relaySubs, pendingApprovals, approval, uris,
                   sessionVars, codec>>

\* handleRelayMessage -> handlePing(topic, params): answers with a pong;
\* a publish failure is caught and logged by handleRelayMessage
HandlePing(e, i, pubOk) ==
    /\ PairingMessage(e, i, "wc_pairingPing")
    /\ StoreHas(pstore[e], inbox[e][i].topic)
    /\ LET m    == inbox[e][i]
           rest == [inbox EXCEPT ![e] = Without(@, i)]
       IN  /\ inbox' = IF pubOk
                       THEN Publish(rest, Peers(e, relaySubs),
                                    Msg(m.topic, "pairing_pong", <<>>))
                       ELSE rest
           /\ last' = [op |-> "handlePing", e |-> e, ok |-> TRUE,
                       error |-> "none", topic |-> m.topic, sent |-> pubOk]
    /\ UNCHANGED <<now, nextKey, keyPairs, wired, pairingVars, sessionVars,
                   events, codec>>

\* handleRelayMessage -> handlePong(topic, params): logs
HandlePong(e, i) ==
    /\ PairingMessage(e, i, "pairing_pong")
    /\ StoreHas(pstore[e], inbox[e][i].topic)
    /\ inbox' = [inbox EXCEPT ![e] = Without(@, i)]
    /\ last' = [op |-> "handlePong", e |-> e, ok |-> TRUE, error |-> "none",
                topic |-> inbox[e][i].topic]
    /\ UNCHANGED <<now, nextKey, keyPairs, wired, pairingVars, sessionVars,
                   events, codec>>

\* time passes
Tick ==
    /\ now + TickStep <= MaxNow
    /\ now' = now + TickStep
    /\ last' = [op |-> "tick", e |-> "none", ok |-> TRUE, error |-> "none"]
    /\ UNCHANGED <<nextKey, keyPairs, wired, pairingVars, sessionVars, inbox,
                   events, codec>>

\* PairingManager.destroy(); pubOk: do the relay.publish calls of delete succeed
PairingDestroy(e, pubOk) ==
    /\ initialized[e]
    /\ LET gone == SetToSeq(StoreAll(pstore[e]))
           msgs == [k \in 1..Len(gone) |->
                       Msg(gone[k], "wc_pairingDelete", [reason |-> "Client destroyed"])]
       IN  /\ inbox' = IF pubOk THEN PublishAll(inbox, Peers(e, relaySubs), msgs) ELSE inbox
           /\ pstore' = [pstore EXCEPT ![e] =
                           [t \in DOMAIN @ \ StoreAll(pstore[e]) |-> @[t]]]
           /\ Emit(e, {TopicEv("pairing_deleted", t) : t \in StoreAll(pstore[e])})
    /\ approval' = [approval EXCEPT ![e] =
                      [t \in DOMAIN @ |->
                          IF t \in DOMAIN pendingApprovals[e]
                          THEN Rejected("Client destroyed") ELSE @[t]]]
    /\ pendingApprovals' = [pendingApprovals EXCEPT ![e] = EmptyMap]
    /\ symKeys' = [symKeys EXCEPT ![e] = EmptyMap]
    /\ topicCallbacks' = [topicCallbacks EXCEPT ![e] = {}]
    /\ relaySubs' = [relaySubs EXCEPT ![e] = EmptyMap]
    /\ wired' = [wired EXCEPT ![e] = FALSE]
    /\ initialized' = [initialized EXCEPT ![e] = FALSE]
    /\ expiryTimer' = [expiryTimer EXCEPT ![e] = StopExpiryTimer(@)]
    /\ last' = [op |-> "destroy", e |-> e, ok |-> TRUE, error |-> "none"]
    /\ UNCHANGED <<now, slept, running, nextKey, keyPairs, uris, sessionVars, codec>>

\* the pairings the expiry timer deletes: those of getAll() that isExpired
SweepExpired(e) == {t \in StoreAll(pstore[e]) : IsExpired(pstore[e][t])}

\* the callback of the expiry timer runs (lines 1088-1100): delete(topic,
\* 'Expired') of every expired pairing getAll() returns; pubOk: do the
\* relay.publish calls of delete succeed
ExpirySweep(e, pubOk) ==
    /\ expiryTimer[e].handle # 0
    /\ expiryTimer[e].due
    /\ SweepExpired(e) = {} => pubOk
    /\ expiryTimer' = [expiryTimer EXCEPT ![e].due = FALSE]
    /\ LET gone == SweepExpired(e)
           msgs == [k \in 1..Cardinality(gone) |->
                       Msg(SetToSeq(gone)[k], "wc_pairingDelete",
                           [reason |-> "Expired"])]
       IN  /\ inbox' = IF pubOk THEN PublishAll(inbox, Peers(e, relaySubs), msgs)
                        ELSE inbox
           /\ pstore' = [pstore EXCEPT ![e] = [t \in DOMAIN @ \ gone |-> @[t]]]
           /\ relaySubs' = [relaySubs EXCEPT ![e] =
                              [t \in DOMAIN @ \ gone |-> @[t]]]
           /\ topicCallbacks' = [topicCallbacks EXCEPT ![e] = @ \ gone]
           /\ symKeys' = [symKeys EXCEPT ![e] = [t \in DOMAIN @ \ gone |-> @[t]]]
           /\ Emit(e, {TopicEv("pairing_deleted", t) : t \in gone})
           /\ last' = [op |-> "expirySweep", e |-> e, ok |-> TRUE,
                       error |-> "none", swept |-> gone]
    /\ UNCHANGED <<now, slept, running, nextKey, keyPairs, wired, initialized,
                   pendingApprovals, approval, uris, sessionVars, codec>>

\* a long time passes, while no approval, request, proposal or session is
\* pending: one pairing lifetime, many intervals of the expiry timers (the
\* short steps of Tick stay below one interval)
Sleep ==
    /\ slept < MaxSleeps
    /\ \A e \in Engines :
          /\ pendingApprovals[e] = EmptyMap
          /\ pendingRequests[e] = EmptyMap
    /\ slept' = slept + 1
    /\ expiryTimer' = [e \in Engines |->
                          [expiryTimer[e] EXCEPT !.due = expiryTimer[e].handle # 0]]
    /\ cleanupTimer' = [e \in Engines |->
                           [cleanupTimer[e] EXCEPT
                               !.due = cleanupTimer[e].armed # {}]]
    /\ last' = [op |-> "sleep", e |-> "none", ok |-> TRUE, error |-> "none"]
    /\ UNCHANGED <<now, running, nextKey, keyPairs, wired, pairingVars, sinit, nextId,
                   proposals, sessions, pendingRequests, response, returned,
                   inbox, events, codec>>

\* the process of a client restarts: a new PairingManager, SessionManager,
\* relay and crypto provider, and a new PairingStore over the same
\* localStorage, whose init() loads the records and deletes the expired ones
\* (PairingStore.ts lines 23-43, 143-163); the SessionStore is memory only
Restart(e) ==
    /\ pstore' = [pstore EXCEPT ![e] =
                    [t \in StoreAll(pstore[e]) |-> pstore[e][t]]]
    /\ initialized' = [initialized EXCEPT ![e] = FALSE]
    /\ symKeys' = [symKeys EXCEPT ![e] = EmptyMap]
    /\ topicCallbacks' = [topicCallbacks EXCEPT ![e] = {}]
    /\ relaySubs' = [relaySubs EXCEPT ![e] = EmptyMap]
    /\ pendingApprovals' = [pendingApprovals EXCEPT ![e] = EmptyMap]
    /\ approval' = [approval EXCEPT ![e] = EmptyMap]
    /\ expiryTimer' = [expiryTimer EXCEPT ![e] = NoTimer]
    /\ cleanupTimer' = [cleanupTimer EXCEPT ![e] = NoInterval]
    /\ keyPairs' = [keyPairs EXCEPT ![e] = {}]
    /\ wired' = [wired EXCEPT ![e] = TRUE]
    /\ sinit' = [sinit EXCEPT ![e] = FALSE]
    /\ proposals' = [proposals EXCEPT ![e] = EmptyMap]
    /\ sessions' = [sessions EXCEPT ![e] = EmptyMap]
    /\ pendingRequests' = [pendingRequests EXCEPT ![e] = EmptyMap]
    /\ response' = [response EXCEPT ![e] = EmptyMap]
    /\ returned' = [returned EXCEPT ![e] = EmptyMap]
    /\ inbox' = [inbox EXCEPT ![e] = <<>>]
    /\ last' = [op |-> "restart", e |-> e, ok |-> TRUE, error |-> "none",
                kept |-> {t \in StoreAll(pstore[e]) :
                            pstore[e][t].status = ACTIVE /\ ~IsExpired(pstore[e][t])}]
    /\ UNCHANGED <<now, slept, running, nextKey, nextId, uris, events, codec>>

---------------------------------------------------------------------------
(***************************************************************************)
(* SessionManager  (src/src/shared/core/CryptoManager.ts, lines 1241-2342). *)
(***************************************************************************)
SESSION_EXPIRY == 7 * 24 * 60 * 60
PROPOSAL_EXPIRY == 5 * 60
REQUEST_TIMEOUT == 5 * 60 * 1000

\* calcExpiry(seconds) of helpers.ts
CalcExpiry(seconds) == now + seconds * 1000

\* the optional relays list of ProposeSessionParams: absent, or a list
NoRelays == [present |-> FALSE, list |-> <<>>]
Relays(list) == [present |-> TRUE, list |-> list]

\* relay.getProtocol().protocol, the protocol of the client's relay config
RelayProtocol == <<"w", "a", "k", "u">>

\* one SessionNamespace {chains, methods, events, accounts}
Ns(chains, methods, evts, accounts) ==
    [chains |-> chains, methods |-> methods, events |-> evts,
     accounts |-> accounts]

\* the order in which the namespace keys were written into the objects
NamespaceOrder == <<"eip155", "solana">>

\* SessionManager.isValidAccount: namespace:chainId:address, no part empty
IsValidAccount(account) ==
    /\ account # <<>>
    /\ LET parts == Split(account, ":")
       IN  /\ Len(parts) = 3
           /\ parts[1] # <<>>
           /\ parts[2] # <<>>
           /\ parts[3] # <<>>

\* RequiredError that does not look at the required events
RequiredErrorNoEvents(namespaces, required, key) ==
    IF key \notin DOMAIN namespaces THEN "Required namespace missing"
    ELSE IF ~(required[key].chains \subseteq namespaces[key].chains)
    THEN "Missing required chains"
    ELSE IF ~(required[key].methods \subseteq namespaces[key].methods)
    THEN "Missing required methods"
    ELSE "none"

\* the check of one required namespace (lines 2147-2193)
RequiredError(namespaces, required, key) ==
    IF key \notin DOMAIN namespaces THEN "Required namespace missing"
    ELSE IF ~(required[key].chains \subseteq namespaces[key].chains)
    THEN "Missing required chains"
    ELSE IF ~(required[key].methods \subseteq namespaces[key].methods)
    THEN "Missing required methods"
    ELSE IF ~(required[key].events \subseteq namespaces[key].events)
    THEN "Missing required events"
    ELSE "none"

\* the check of the accounts of one namespace (lines 2197-2208)
AccountError(namespaces, key) ==
    IF \E a \in namespaces[key].accounts : ~IsValidAccount(a)
    THEN "Invalid account format"
    ELSE "none"

\* the first error of a list of check results, "none" when all passed
FirstError(errs) ==
    LET bad == SelectSeq(errs, LAMBDA x : x # "none")
    IN  IF bad = <<>> THEN "none" ELSE bad[1]

\* SessionManager.validateNamespaces: the error it throws, or "none"
ValidateNamespaces(namespaces, required) ==
    LET reqKeys == SelectSeq(NamespaceOrder, LAMBDA k : k \in DOMAIN required)
        nsKeys  == SelectSeq(NamespaceOrder, LAMBDA k : k \in DOMAIN namespaces)
    IN  FirstError([i \in 1..Len(reqKeys) |->
                        RequiredError(namespaces, required, reqKeys[i])]
                   \o [i \in 1..Len(nsKeys) |-> AccountError(namespaces, nsKeys[i])])

\* the request promise of request(): pending, resolved or rejected
ReqPending == [state |-> "pending", result |-> <<>>, error |-> "none"]
ReqResolved(r) == [state |-> "resolved", result |-> r, error |-> "none"]
ReqRejected(err) == [state |-> "rejected", result |-> <<>>, error |-> err]

\* is the client's relay started (PairingManager.initialize starts it,
\* PairingManager.destroy stops it)
RelayStarted(e) == initialized[e]

\* the sessions cleanupExpired finds expired: now >= session.expiry * 1000
ExpiredSessions(e) ==
    {t \in DOMAIN sessions[e] : NowSeconds >= sessions[e][t].expiry}

\* the proposals cleanupExpired deletes: now >= proposal.expiryTimestamp
ExpiredProposals(e) ==
    {id \in DOMAIN proposals[e] : NowAtLeast(proposals[e][id].expiryTimestamp)}

\* requests made so far: each one left a promise
RequestsMade == Cardinality(DOMAIN response["A"]) + Cardinality(DOMAIN response["B"])

\* SessionManager.init(relay)
SessionInit(e) ==
    /\ initialized[e]
    /\ ~sinit[e]
    /\ relaySubs' = [relaySubs EXCEPT ![e] =
                       [t \in DOMAIN @ \cup DOMAIN sessions[e] |->
                           IF t \in DOMAIN @ THEN @[t] ELSE "session"]]
    /\ IF ExpiredSessions(e) # {}
       THEN /\ last' = [op |-> "init", e |-> e, ok |-> FALSE,
                        error |-> "SessionManager not initialized"]
            /\ UNCHANGED <<sinit, proposals, cleanupTimer>>
       ELSE /\ proposals' = [proposals EXCEPT ![e] =
                               [id \in DOMAIN @ \ ExpiredProposals(e) |-> @[id]]]
            /\ cleanupTimer' = [cleanupTimer EXCEPT ![e] = StartCleanupTimer(@)]
            /\ sinit' = [sinit EXCEPT ![e] = TRUE]
            /\ last' = [op |-> "init", e |-> e, ok |-> TRUE, error |-> "none"]
    /\ UNCHANGED <<now, nextKey, keyPairs, wired, initialized, pstore, symKeys,
                   topicCallbacks, pendingApprovals, approval, uris, nextId,
                   sessions, pendingRequests, response, returned, inbox, events,
                   codec>>

\* the error PairingManager.forward(topic, ..) throws, or "none"
ForwardError(e, topic, pubOk) ==
    IF ~initialized[e] THEN "PairingManager not initialized"
    ELSE IF ~StoreHas(pstore[e], topic) THEN "Pairing not found"
    ELSE IF NotActive(pstore[e][topic]) THEN "Pairing is not active"
    ELSE IF ~pubOk THEN "Failed to publish message"
    ELSE "none"

\* the store after forward's store.get(topic)
ForwardStore(e, topic) ==
    IF initialized[e]
    THEN [pstore EXCEPT ![e] = StoreAfterGet(@, topic)]
    ELSE pstore

\* the relay queues after forward(topic, method, params)
Forwarded(e, topic, method, params, pubOk) ==
    IF ForwardError(e, topic, pubOk) = "none"
    THEN Publish(inbox, Peers(e, relaySubs), Msg(topic, method, params))
    ELSE inbox

\* the SessionProposal propose() builds (lines 1338-1350)
ProposedSession(id, pub, params) ==
    [proposalId |-> id, pairingTopic |-> params.pairingTopic, proposer |-> pub,
     requiredNamespaces |-> params.requiredNamespaces,
     relay |-> IF ~params.relays.present \/ params.relays.list = <<>>
               THEN Relay(RelayProtocol, <<>>)
               ELSE params.relays.list[1],
     relays |-> params.relays,
     expiryTimestamp |-> CalcExpiry(PROPOSAL_EXPIRY)]

\* SessionManager.propose(params); pubOk: does relay.publish succeed; limit and
\* keys bound the proposals made and the key pairs generated
ProposeWithin(limit, keys, e, params, pubOk) ==
    /\ sinit[e]
    /\ ~IsWallet(e)
    /\ nextId - RequestsMade < limit
    /\ nextKey < keys
    /\ ForwardError(e, params.pairingTopic, TRUE) # "none" => pubOk
    /\ LET id       == nextId + 1
           n        == nextKey + 1
           proposal == ProposedSession(id, PubKey(n), params)
           err      == ForwardError(e, params.pairingTopic, pubOk)
       IN  /\ nextId' = id
           /\ nextKey' = n
           /\ keyPairs' = [keyPairs EXCEPT ![e] = @ \cup {n}]
           /\ proposals' = [proposals EXCEPT ![e] = Put(@, id, proposal)]
           /\ pstore' = ForwardStore(e, params.pairingTopic)
           /\ inbox' = Forwarded(e, params.pairingTopic, "wc_sessionPropose",
                                 proposal, pubOk)
           /\ returned' = IF err = "none"
                          THEN [returned EXCEPT ![e] = Put(@, id, proposal)]
                          ELSE returned
           /\ last' = [op |-> "propose", e |-> e, ok |-> err = "none",
                       error |-> err, id |-> id,
                       withRelays |-> params.relays.present]
    /\ UNCHANGED <<now, wired, initialized, symKeys, topicCallbacks, relaySubs,
                   pendingApprovals, approval, uris, sinit, sessions,
                   pendingRequests, response, events, codec,
                   cleanupTimer>>

\* propose() while fewer than MaxProposals proposals were made
Propose(e, params, pubOk) ==
    ProposeWithin(MaxProposals, MaxKeys, e, params, pubOk)

\* the SessionProposal handleSessionProposeFromPairing builds (lines 1788-1797)
ReceivedProposal(params) ==
    [proposalId |-> params.proposalId, pairingTopic |-> params.pairingTopic,
     proposer |-> params.proposer,
     requiredNamespaces |-> params.requiredNamespaces,
     relay |-> IF params.relays.list = <<>> THEN NoRelay
               ELSE params.relays.list[1],
     relays |-> params.relays,
     expiryTimestamp |-> params.expiryTimestamp]

\* handleRelayMessage -> handleSessionPropose -> emit(PROPOSAL) ->
\* SessionManager.handleSessionProposeFromPairing, when the wallet listens;
\* params.relays[0] throws when the message carries no relays
HandleSessionPropose(e, i) ==
    /\ PairingMessage(e, i, "wc_sessionPropose")
    /\ StoreHas(pstore[e], inbox[e][i].topic)
    /\ LET params == inbox[e][i].params
           stored == wired[e] /\ IsWallet(e) /\ params.relays.present
       IN  /\ IF stored
              THEN /\ proposals' = [proposals EXCEPT ![e] =
                                      Put(@, params.proposalId,
                                          ReceivedProposal(params))]
                   /\ Emit(e, {Ev("session_proposal", params.pairingTopic,
                                  params.proposalId, <<>>, params.proposer,
                                  <<>>)})
              ELSE UNCHANGED <<proposals, events>>
           /\ last' = [op |-> "handleSessionPropose", e |-> e, ok |-> TRUE,
                       error |-> "none", id |-> params.proposalId,
                       listening |-> wired[e] /\ IsWallet(e),
                       stored |-> stored]
    /\ inbox' = [inbox EXCEPT ![e] = Without(@, i)]
    /\ UNCHANGED <<now, nextKey, keyPairs, wired, pairingVars, sinit, nextId,
                   sessions, pendingRequests, response, returned, codec,
                   cleanupTimer>>

\* the SessionData approve() builds (lines 1412-1436)
ApprovedSession(proposal, priv, pub, namespaces) ==
    [topic |-> SharedKey(priv, proposal.proposer),
     pairingTopic |-> proposal.pairingTopic, relay |-> proposal.relay,
     expiry |-> CalcExpiry(SESSION_EXPIRY), acknowledged |-> FALSE,
     controller |-> pub, namespaces |-> namespaces,
     requiredNamespaces |-> proposal.requiredNamespaces,
     self |-> pub, peer |-> proposal.proposer, status |-> "settled",
     proposalId |-> proposal.proposalId]

\* SettleParams that carries no proposalId
SettleParamsNoId(session) ==
    [proposalId |-> 0, pairingTopic |-> session.pairingTopic,
     relay |-> session.relay, namespaces |-> session.namespaces,
     requiredNamespaces |-> session.requiredNamespaces,
     controller |-> session.self, expiry |-> session.expiry]

\* the SessionSettle message approve() forwards (lines 1447-1459)
SettleParams(session) ==
    [proposalId |-> session.proposalId, pairingTopic |-> session.pairingTopic,
     relay |-> session.relay, namespaces |-> session.namespaces,
     requiredNamespaces |-> session.requiredNamespaces,
     controller |-> session.self, expiry |-> session.expiry]

\* approve() that never looks at the proposal's expiryTimestamp
ApproveErrorNoExpiry(e, params) ==
    IF params.proposalId \notin DOMAIN proposals[e] THEN "Proposal not found"
    ELSE ValidateNamespaces(params.namespaces,
                            proposals[e][params.proposalId].requiredNamespaces)

\* the error approve() throws before it generates a key pair, or "none"
ApproveError(e, params) ==
    IF params.proposalId \notin DOMAIN proposals[e] THEN "Proposal not found"
    ELSE IF NowPast(proposals[e][params.proposalId].expiryTimestamp)
    THEN "Proposal has expired"
    ELSE ValidateNamespaces(params.namespaces,
                            proposals[e][params.proposalId].requiredNamespaces)

\* SessionManager.approve(params); pubOk: does relay.publish succeed
Approve(e, params, pubOk) ==
    /\ sinit[e]
    /\ IsWallet(e)
    /\ IF ApproveError(e, params) # "none"
       THEN /\ pubOk
            /\ last' = [op |-> "approve", e |-> e, ok |-> FALSE,
                        error |-> ApproveError(e, params),
                        id |-> params.proposalId,
                        found |-> params.proposalId \in DOMAIN proposals[e],
                        namespaces |->
                            IF params.proposalId \in DOMAIN proposals[e]
                            THEN params.namespaces ELSE EmptyMap]
            /\ UNCHANGED <<nextKey, keyPairs, pstore, relaySubs, inbox,
                           proposals, sessions, returned>>
       ELSE /\ nextKey < MaxKeys
            /\ LET n        == nextKey + 1
                   proposal == proposals[e][params.proposalId]
                   session  == ApprovedSession(proposal, PrivKey(n), PubKey(n),
                                               params.namespaces)
                   err      == IF ~RelayStarted(e) THEN "Relay not started"
                               ELSE ForwardError(e, proposal.pairingTopic, pubOk)
               IN  /\ ~RelayStarted(e) \/ ForwardError(e, proposal.pairingTopic,
                                                        TRUE) # "none" => pubOk
                   /\ nextKey' = n
                   /\ keyPairs' = [keyPairs EXCEPT ![e] = @ \cup {n}]
                   /\ sessions' = [sessions EXCEPT ![e] =
                                     Put(@, session.topic, session)]
                   /\ relaySubs' = IF RelayStarted(e)
                                   THEN [relaySubs EXCEPT ![e] =
                                           Subscribed(@, session.topic, "session")]
                                   ELSE relaySubs
                   /\ pstore' = ForwardStore(e, proposal.pairingTopic)
                   /\ inbox' = Forwarded(e, proposal.pairingTopic,
                                         "wc_sessionSettle", SettleParams(session),
                                         pubOk)
                   /\ proposals' = IF err = "none"
                                   THEN [proposals EXCEPT ![e] =
                                           Del(@, params.proposalId)]
                                   ELSE proposals
                   /\ returned' = IF err = "none"
                                  THEN [returned EXCEPT ![e] =
                                          Put(@, params.proposalId, session)]
                                  ELSE returned
                   /\ last' = [op |-> "approve", e |-> e, ok |-> err = "none",
                               error |-> err, id |-> params.proposalId,
                               found |-> TRUE, namespaces |-> params.namespaces,
                               topic |-> session.topic]
    /\ UNCHANGED <<now, wired, initialized, symKeys, topicCallbacks,
                   pendingApprovals, approval, uris, sinit, nextId,
                   pendingRequests, response, events, codec,
                   cleanupTimer>>

\* the proposals handleSessionSettleFromPairing matches (lines 1835-1836)
MatchingProposals(e, params) ==
    {id \in DOMAIN proposals[e] :
        /\ proposals[e][id].proposalId = params.proposalId
        /\ proposals[e][id].pairingTopic = params.pairingTopic}

\* the SessionData handleSessionSettleFromPairing builds (lines 1852-1876)
SettledSession(proposal, priv, params) ==
    [topic |-> SharedKey(priv, params.controller),
     pairingTopic |-> proposal.pairingTopic, relay |-> params.relay,
     expiry |-> params.expiry, acknowledged |-> TRUE,
     controller |-> params.controller, namespaces |-> params.namespaces,
     requiredNamespaces |-> params.requiredNamespaces,
     self |-> proposal.proposer, peer |-> params.controller,
     status |-> "settled", proposalId |-> proposal.proposalId]

\* handleRelayMessage -> handleSessionSettle -> emit(SETTLED) ->
\* SessionManager.handleSessionSettleFromPairing, when the dapp listens
HandleSessionSettle(e, i) ==
    /\ PairingMessage(e, i, "wc_sessionSettle")
    /\ StoreHas(pstore[e], inbox[e][i].topic)
    /\ LET params  == inbox[e][i].params
           found   == MatchingProposals(e, params)
           settled == /\ wired[e] /\ ~IsWallet(e) /\ found # {}
                      /\ PubNum(proposals[e][CHOOSE id \in found : TRUE].proposer)
                             \in keyPairs[e]
       IN  /\ IF settled
              THEN LET proposal == proposals[e][CHOOSE id \in found : TRUE]
                       session  == SettledSession(proposal,
                                       PrivKey(PubNum(proposal.proposer)), params)
                   IN  /\ sessions' = [sessions EXCEPT ![e] =
                                         Put(@, session.topic, session)]
                       /\ relaySubs' = [relaySubs EXCEPT ![e] =
                                          Subscribed(@, session.topic, "session")]
                       /\ proposals' = [proposals EXCEPT ![e] =
                                          Del(@, proposal.proposalId)]
                       /\ Emit(e, {Ev("session_settled", session.topic,
                                      session.proposalId, session.self,
                                      session.peer, session.controller)})
              ELSE UNCHANGED <<sessions, relaySubs, proposals, events>>
           /\ last' = [op |-> "handleSessionSettle", e |-> e, ok |-> TRUE,
                       error |-> "none", id |-> params.proposalId,
                       settled |-> settled]
    /\ inbox' = [inbox EXCEPT ![e] = Without(@, i)]
    /\ UNCHANGED <<now, nextKey, keyPairs, wired, initialized, pstore, symKeys,
                   topicCallbacks, pendingApprovals, approval, uris, sinit,
                   nextId, pendingRequests, response, returned, codec,
                   cleanupTimer>>

\* SessionManager.reject(params); pubOk: does relay.publish succeed
SessionReject(e, proposalId, pubOk) ==
    /\ sinit[e]
    /\ IsWallet(e)
    /\ IF proposalId \notin DOMAIN proposals[e]
       THEN /\ last' = [op |-> "sessionReject", e |-> e, ok |-> FALSE,
                        error |-> "Proposal not found", id |-> proposalId]
            /\ UNCHANGED <<pstore, inbox, proposals>>
       ELSE LET topic == proposals[e][proposalId].pairingTopic
                err   == ForwardError(e, topic, pubOk)
            IN  /\ pstore' = ForwardStore(e, topic)
                /\ inbox' = Forwarded(e, topic, "wc_sessionReject",
                                      [proposalId |-> proposalId,
                                       reason |-> "rejected"], pubOk)
                /\ proposals' = IF err = "none"
                                THEN [proposals EXCEPT ![e] = Del(@, proposalId)]
                                ELSE proposals
                /\ last' = [op |-> "sessionReject", e |-> e, ok |-> err = "none",
                            error |-> err, id |-> proposalId]
    /\ UNCHANGED <<now, nextKey, keyPairs, wired, initialized, symKeys,
                   topicCallbacks, relaySubs, pendingApprovals, approval, uris,
                   sinit, nextId, sessions, pendingRequests, response, returned,
                   events, codec,
                   cleanupTimer>>

\* handleRelayMessage -> handleSessionReject -> emit(REJECTED) ->
\* SessionManager.handleSessionRejectFromPairing, when the dapp listens
HandleSessionReject(e, i) ==
    /\ PairingMessage(e, i, "wc_sessionReject")
    /\ StoreHas(pstore[e], inbox[e][i].topic)
    /\ LET params == inbox[e][i].params
       IN  /\ IF wired[e] /\ ~IsWallet(e)
              THEN /\ proposals' = [proposals EXCEPT ![e] =
                                      Del(@, params.proposalId)]
                   /\ Emit(e, {Ev("session_rejected", <<>>, 0, <<>>, <<>>, <<>>)})
              ELSE UNCHANGED <<proposals, events>>
           /\ last' = [op |-> "handleSessionReject", e |-> e, ok |-> TRUE,
                       error |-> "none", id |-> params.proposalId]
    /\ inbox' = [inbox EXCEPT ![e] = Without(@, i)]
    /\ UNCHANGED <<now, nextKey, keyPairs, wired, pairingVars, sinit, nextId,
                   sessions, pendingRequests, response, returned, codec,
                   cleanupTimer>>

\* the message a client's SessionManager callback is handed
SessionMessage(e, i, method) ==
    /\ Deliverable(e, i)
    /\ inbox[e][i].method = method
    /\ inbox[e][i].params # NoParams
    /\ inbox[e][i].topic \in DOMAIN relaySubs[e]
    /\ relaySubs[e][inbox[e][i].topic] = "session"

\* session topics a caller can name: those stored and those it was told of
KnownSessions(e) ==
    DOMAIN sessions[e]
        \cup {ev.topic : ev \in {x \in events[e] : x.name = "session_settled"}}

\* does some namespace of the session list the method (lines 1676-1678)
IsSupported(session, method) ==
    \E k \in DOMAIN session.namespaces : method \in session.namespaces[k].methods

\* the error request() throws before it creates the promise, or "none"
RequestError(e, topic, method) ==
    IF topic \notin DOMAIN sessions[e] THEN "Session not found"
    ELSE IF sessions[e][topic].status # "settled" THEN "Session is not settled"
    ELSE IF ~IsSupported(sessions[e][topic], method) THEN "Method not supported"
    ELSE "none"

\* a failed request that leaves its waiter and timer behind
RequestFailedKeeps(waiters, id) == waiters

\* the catch of request()'s sendMessage: clearTimeout and
\* pendingRequests.delete(id) (lines 1712-1716)
RequestFailed(waiters, id) == Del(waiters, id)

\* SessionManager.request(request); pubOk: does relay.publish succeed
Request(e, topic, method, pubOk) ==
    /\ sinit[e]
    /\ ~IsWallet(e)
    /\ topic \in KnownSessions(e)
    /\ IF RequestError(e, topic, method) # "none"
       THEN /\ pubOk
            /\ last' = [op |-> "request", e |-> e, ok |-> FALSE,
                        error |-> RequestError(e, topic, method), topic |-> topic]
            /\ UNCHANGED <<nextId, pendingRequests, response, inbox>>
       ELSE /\ RequestsMade < MaxRequests
            /\ now + REQUEST_TIMEOUT <= MaxNow
            /\ LET id   == nextId + 1
                   sent == pubOk /\ RelayStarted(e)
               IN  /\ ~RelayStarted(e) => pubOk
                   /\ nextId' = id
                   /\ IF sent
                      THEN /\ pendingRequests' = [pendingRequests EXCEPT ![e] =
                                                    Put(@, id, now + REQUEST_TIMEOUT)]
                           /\ response' = [response EXCEPT ![e] =
                                             Put(@, id, ReqPending)]
                           /\ inbox' = Publish(inbox, Peers(e, relaySubs),
                                               Msg(topic, "wc_sessionRequest",
                                                   [id |-> id, method |-> method]))
                      ELSE /\ pendingRequests' = [pendingRequests EXCEPT ![e] =
                                  RequestFailed(
                                      Put(@, id, now + REQUEST_TIMEOUT), id)]
                           /\ response' = [response EXCEPT ![e] =
                                             Put(@, id, ReqRejected(
                                                 "Failed to publish message"))]
                           /\ UNCHANGED inbox
                   /\ last' = [op |-> "request", e |-> e, ok |-> sent,
                               error |-> IF sent THEN "none"
                                         ELSE "Failed to publish message",
                               topic |-> topic, id |-> id, method |-> method]
    /\ UNCHANGED <<now, nextKey, keyPairs, wired, pairingVars, sinit, proposals,
                   sessions, returned, events, codec,
                   cleanupTimer>>

\* the request timer of request() fires (lines 1689-1695)
RequestTimeout(e, id) ==
    /\ id \in DOMAIN pendingRequests[e]
    /\ now >= pendingRequests[e][id]
    /\ pendingRequests' = [pendingRequests EXCEPT ![e] = Del(@, id)]
    /\ response' = [response EXCEPT ![e] = Put(@, id, ReqRejected("Request timeout"))]
    /\ last' = [op |-> "requestTimeout", e |-> e, ok |-> TRUE, error |-> "none",
                id |-> id]
    /\ UNCHANGED <<now, nextKey, keyPairs, wired, pairingVars, sinit, nextId,
                   proposals, sessions, returned, inbox, events, codec,
                   cleanupTimer>>

\* handleMessage -> handleSessionRequest(topic, params)
HandleSessionRequest(e, i) ==
    /\ SessionMessage(e, i, "wc_sessionRequest")
    /\ LET m == inbox[e][i]
       IN  /\ IF m.topic \in DOMAIN sessions[e]
              THEN Emit(e, {Ev("session_request", m.topic, m.params.id, <<>>,
                               <<>>, <<m.params.method>>)})
              ELSE UNCHANGED events
           /\ last' = [op |-> "handleSessionRequest", e |-> e, ok |-> TRUE,
                       error |-> "none", topic |-> m.topic, id |-> m.params.id]
    /\ inbox' = [inbox EXCEPT ![e] = Without(@, i)]
    /\ UNCHANGED <<now, nextKey, keyPairs, wired, pairingVars, sessionVars, codec>>

\* the requests a wallet can answer: those it was told of by a REQUEST event
KnownRequests(e) == {ev \in events[e] : ev.name = "session_request"}

\* SessionManager.respond(response); failed: does the response carry an error
Respond(e, topic, id, result, failed, pubOk) ==
    /\ sinit[e]
    /\ IsWallet(e)
    /\ \E ev \in KnownRequests(e) : ev.topic = topic /\ ev.id = id
    /\ LET err == IF topic \notin DOMAIN sessions[e] THEN "Session not found"
                  ELSE IF ~(pubOk /\ RelayStarted(e))
                  THEN "Failed to publish message"
                  ELSE "none"
       IN  /\ topic \notin DOMAIN sessions[e] \/ ~RelayStarted(e) => pubOk
           /\ inbox' = IF err = "none"
                       THEN Publish(inbox, Peers(e, relaySubs),
                                    Msg(topic, "wc_sessionResponse",
                                        [id |-> id, result |-> result,
                                         failed |-> failed]))
                       ELSE inbox
           /\ last' = [op |-> "respond", e |-> e, ok |-> err = "none",
                       error |-> err, topic |-> topic, id |-> id]
    /\ UNCHANGED <<now, nextKey, keyPairs, wired, pairingVars, sessionVars,
                   events, codec>>

\* ResponseSettled that resolves without the result
ResponseSettledEmpty(params) ==
    IF params.failed THEN ReqRejected("response error")
    ELSE ReqResolved(<<>>)

\* the request promise after handleSessionResponse settled it (lines 2091-2100)
ResponseSettled(params) ==
    IF params.failed THEN ReqRejected("response error")
    ELSE ReqResolved(params.result)

\* a lookup that finds a waiter for every id
HasWaiterAlways(e, id) == TRUE

\* pendingRequests.get(data.id) finds a waiter (lines 2080-2084)
HasWaiter(e, id) == id \in DOMAIN pendingRequests[e]

\* handleMessage -> handleSessionResponse(params)
HandleSessionResponse(e, i) ==
    /\ SessionMessage(e, i, "wc_sessionResponse")
    /\ LET params == inbox[e][i].params
           found  == HasWaiter(e, params.id)
       IN  /\ IF found
              THEN /\ pendingRequests' = [pendingRequests EXCEPT ![e] =
                                            Del(@, params.id)]
                   /\ response' = [response EXCEPT ![e] =
                                     Put(@, params.id, ResponseSettled(params))]
              ELSE UNCHANGED <<pendingRequests, response>>
           /\ last' = [op |-> "handleSessionResponse", e |-> e, ok |-> TRUE,
                       error |-> "none", id |-> params.id, found |-> found,
                       failed |-> params.failed, result |-> params.result,
                       topic |-> inbox[e][i].topic]
    /\ inbox' = [inbox EXCEPT ![e] = Without(@, i)]
    /\ UNCHANGED <<now, nextKey, keyPairs, wired, pairingVars, sinit, nextId,
                   proposals, sessions, returned, events, codec,
                   cleanupTimer>>

\* the error update() and extend() throw, or "none": the session is read,
\* update() tests its status, and sendMessage publishes after store.set
ChangeError(e, topic, settledOnly, pubOk) ==
    IF topic \notin DOMAIN sessions[e] THEN "Session not found"
    ELSE IF settledOnly /\ sessions[e][topic].status # "settled"
    THEN "Session is not settled"
    ELSE IF ~(pubOk /\ RelayStarted(e)) THEN "Failed to publish message"
    ELSE "none"

\* SessionManager.update(params); pubOk: does relay.publish succeed
SessionUpdate(e, topic, namespaces, pubOk) ==
    /\ sinit[e]
    /\ topic \in KnownSessions(e)
    /\ LET err    == ChangeError(e, topic, TRUE, pubOk)
           stored == err \in {"none", "Failed to publish message"}
       IN  /\ ~stored \/ ~RelayStarted(e) => pubOk
           /\ sessions' = IF stored
                          THEN [sessions EXCEPT ![e][topic].namespaces = namespaces]
                          ELSE sessions
           /\ inbox' = IF err = "none"
                       THEN Publish(inbox, Peers(e, relaySubs),
                                    Msg(topic, "wc_sessionUpdate",
                                        [namespaces |-> namespaces]))
                       ELSE inbox
           /\ IF err = "none" THEN Emit(e, {TopicEv("session_updated", topic)})
              ELSE UNCHANGED events
           /\ last' = [op |-> "sessionUpdate", e |-> e, ok |-> err = "none",
                       error |-> err, topic |-> topic]
    /\ UNCHANGED <<now, nextKey, keyPairs, wired, pairingVars, sinit, nextId,
                   proposals, pendingRequests, response, returned, codec,
                   cleanupTimer>>

\* SessionManager.extend(params); pubOk: does relay.publish succeed
SessionExtend(e, topic, expiry, pubOk) ==
    /\ sinit[e]
    /\ topic \in KnownSessions(e)
    /\ LET err    == ChangeError(e, topic, FALSE, pubOk)
           stored == err \in {"none", "Failed to publish message"}
       IN  /\ ~stored \/ ~RelayStarted(e) => pubOk
           /\ sessions' = IF stored
                          THEN [sessions EXCEPT ![e][topic].expiry = expiry]
                          ELSE sessions
           /\ inbox' = IF err = "none"
                       THEN Publish(inbox, Peers(e, relaySubs),
                                    Msg(topic, "wc_sessionExtend",
                                        [expiry |-> expiry]))
                       ELSE inbox
           /\ IF err = "none" THEN Emit(e, {TopicEv("session_extended", topic)})
              ELSE UNCHANGED events
           /\ last' = [op |-> "sessionExtend", e |-> e, ok |-> err = "none",
                       error |-> err, topic |-> topic]
    /\ UNCHANGED <<now, nextKey, keyPairs, wired, pairingVars, sinit, nextId,
                   proposals, pendingRequests, response, returned, codec,
                   cleanupTimer>>

\* handleMessage -> handleSessionUpdate(topic, params)
HandleSessionUpdate(e, i) ==
    /\ SessionMessage(e, i, "wc_sessionUpdate")
    /\ LET m == inbox[e][i]
       IN  /\ IF m.topic \in DOMAIN sessions[e]
              THEN /\ sessions' = [sessions EXCEPT ![e][m.topic].namespaces =
                                      m.params.namespaces]
                   /\ Emit(e, {TopicEv("session_updated", m.topic)})
              ELSE UNCHANGED <<sessions, events>>
           /\ last' = [op |-> "handleSessionUpdate", e |-> e, ok |-> TRUE,
                       error |-> "none", topic |-> m.topic]
    /\ inbox' = [inbox EXCEPT ![e] = Without(@, i)]
    /\ UNCHANGED <<now, nextKey, keyPairs, wired, pairingVars, sinit, nextId,
                   proposals, pendingRequests, response, returned, codec,
                   cleanupTimer>>

\* handleMessage -> handleSessionExtend(topic, params)
HandleSessionExtend(e, i) ==
    /\ SessionMessage(e, i, "wc_sessionExtend")
    /\ LET m == inbox[e][i]
       IN  /\ IF m.topic \in DOMAIN sessions[e]
              THEN /\ sessions' = [sessions EXCEPT ![e][m.topic].expiry =
                                      m.params.expiry]
                   /\ Emit(e, {TopicEv("session_extended", m.topic)})
              ELSE UNCHANGED <<sessions, events>>
           /\ last' = [op |-> "handleSessionExtend", e |-> e, ok |-> TRUE,
                       error |-> "none", topic |-> m.topic]
    /\ inbox' = [inbox EXCEPT ![e] = Without(@, i)]
    /\ UNCHANGED <<now, nextKey, keyPairs, wired, pairingVars, sinit, nextId,
                   proposals, pendingRequests, response, returned, codec,
                   cleanupTimer>>

\* the wc_sessionDelete messages of disconnect() for a list of topics
DeleteMessages(topics, reason) ==
    [k \in 1..Len(topics) |-> Msg(topics[k], "wc_sessionDelete", [reason |-> reason])]

\* disconnect() that keeps the record, marked DISCONNECTED
DisconnectedRetains(e, topics, reason, pubOk) ==
    /\ inbox' = IF pubOk /\ RelayStarted(e)
                THEN PublishAll(inbox, Peers(e, relaySubs),
                                DeleteMessages(SetToSeq(topics), reason))
                ELSE inbox
    /\ relaySubs' = [relaySubs EXCEPT ![e] = [t \in DOMAIN @ \ topics |-> @[t]]]
    /\ sessions' = [sessions EXCEPT ![e] =
                      [t \in DOMAIN @ |->
                          IF t \in topics
                          THEN [@[t] EXCEPT !.status = "disconnected"]
                          ELSE @[t]]]
    /\ Emit(e, {TopicEv("session_deleted", t) : t \in topics})

\* disconnect() of every session of the set: the DELETE message is sent (a
\* failure is swallowed), the topic unsubscribed, the session deleted
Disconnected(e, topics, reason, pubOk) ==
    /\ inbox' = IF pubOk /\ RelayStarted(e)
                THEN PublishAll(inbox, Peers(e, relaySubs),
                                DeleteMessages(SetToSeq(topics), reason))
                ELSE inbox
    /\ relaySubs' = [relaySubs EXCEPT ![e] = [t \in DOMAIN @ \ topics |-> @[t]]]
    /\ sessions' = [sessions EXCEPT ![e] = [t \in DOMAIN @ \ topics |-> @[t]]]
    /\ Emit(e, {TopicEv("session_deleted", t) : t \in topics})

\* SessionManager.disconnect(params); pubOk: does relay.publish succeed
Disconnect(e, topic, pubOk) ==
    /\ sinit[e]
    /\ topic \in KnownSessions(e)
    /\ Disconnected(e, {topic} \cap DOMAIN sessions[e], "disconnect", pubOk)
    /\ last' = [op |-> "disconnect", e |-> e, ok |-> TRUE, error |-> "none",
                topic |-> topic, existed |-> topic \in DOMAIN sessions[e],
                sent |-> pubOk /\ RelayStarted(e)]
    /\ UNCHANGED <<now, nextKey, keyPairs, wired, initialized, pstore, symKeys,
                   topicCallbacks, pendingApprovals, approval, uris, sinit,
                   nextId, proposals, pendingRequests, response, returned, codec,
                   cleanupTimer>>

\* handleMessage -> handleSessionDelete(topic, data)
HandleSessionDelete(e, i) ==
    /\ SessionMessage(e, i, "wc_sessionDelete")
    /\ LET t == inbox[e][i].topic
       IN  /\ IF t \in DOMAIN sessions[e]
              THEN /\ relaySubs' = [relaySubs EXCEPT ![e] = Del(@, t)]
                   /\ sessions' = [sessions EXCEPT ![e] = Del(@, t)]
                   /\ Emit(e, {TopicEv("session_deleted", t)})
              ELSE UNCHANGED <<relaySubs, sessions, events>>
           /\ last' = [op |-> "handleSessionDelete", e |-> e, ok |-> TRUE,
                       error |-> "none", topic |-> t]
    /\ inbox' = [inbox EXCEPT ![e] = Without(@, i)]
    /\ UNCHANGED <<now, nextKey, keyPairs, wired, initialized, pstore, symKeys,
                   topicCallbacks, pendingApprovals, approval, uris, sinit,
                   nextId, proposals, pendingRequests, response, returned, codec,
                   cleanupTimer>>

\* SessionManager.ping(topic); pubOk: does relay.publish succeed
SessionPing(e, topic, pubOk) ==
    /\ sinit[e]
    /\ topic \in KnownSessions(e)
    /\ LET err == IF topic \notin DOMAIN sessions[e] THEN "Session not found"
                  ELSE IF ~(pubOk /\ RelayStarted(e))
                  THEN "Failed to publish message"
                  ELSE "none"
       IN  /\ topic \notin DOMAIN sessions[e] \/ ~RelayStarted(e) => pubOk
           /\ inbox' = IF err = "none"
                       THEN Publish(inbox, Peers(e, relaySubs),
                                    Msg(topic, "wc_sessionPing", [id |-> 0]))
                       ELSE inbox
           /\ last' = [op |-> "sessionPing", e |-> e, ok |-> err = "none",
                       error |-> err, topic |-> topic]
    /\ UNCHANGED <<now, nextKey, keyPairs, wired, pairingVars, sessionVars,
                   events, codec>>

\* handleMessage -> handleSessionPing(topic, params) up to the await of
\* relay.publish: the pong, a payload without method, is sent (lines
\* 2041-2046); a publish that fails ends the handler in the catch of
\* messageCallback
HandleSessionPingBegin(e, i, pubOk) ==
    /\ SessionMessage(e, i, "wc_sessionPing")
    /\ Len(running[e]) < MaxRunning
    /\ LET m    == inbox[e][i]
           rest == [inbox EXCEPT ![e] = Without(@, i)]
           sent == pubOk /\ RelayStarted(e)
       IN  /\ ~RelayStarted(e) => pubOk
           /\ inbox' = IF sent
                       THEN Publish(rest, Peers(e, relaySubs),
                                    Msg(m.topic, UnknownMethod, NoParams))
                       ELSE rest
           /\ running' = IF sent
                         THEN [running EXCEPT ![e] =
                                 Append(@, Waiting("handleSessionPing", m.topic, <<>>))]
                         ELSE running
           /\ last' = [op |-> "handleSessionPing", e |-> e, ok |-> TRUE,
                       error |-> "none", topic |-> m.topic, sent |-> sent]
    /\ UNCHANGED <<now, nextKey, keyPairs, wired, pairingVars, sessionVars,
                   events, codec>>

\* the rest of handleSessionPing: emit('session_ping') (lines 2048-2049)
HandleSessionPingEnd(e, k) ==
    /\ k \in 1..Len(running[e])
    /\ running[e][k].op = "handleSessionPing"
    /\ Emit(e, {TopicEv("session_ping", running[e][k].topic)})
    /\ running' = [running EXCEPT ![e] = Without(@, k)]
    /\ last' = [op |-> "handleSessionPingEnd", e |-> e, ok |-> TRUE,
                error |-> "none", topic |-> running[e][k].topic]
    /\ UNCHANGED <<now, nextKey, keyPairs, wired, pairingVars, sessionVars,
                   inbox, codec>>

\* disconnect() up to the await of relay.unsubscribe: the session is read and
\* the DELETE sent, a failure swallowed (lines 1591-1613); echo: does the
\* relay hand the publisher its own message
DisconnectBegin(e, topic, echo, pubOk) ==
    /\ sinit[e]
    /\ topic \in DOMAIN sessions[e]
    /\ Len(running[e]) < MaxRunning
    /\ inbox' = IF pubOk /\ RelayStarted(e)
                THEN Publish(inbox, IF echo THEN relaySubs ELSE Peers(e, relaySubs),
                             Msg(topic, "wc_sessionDelete", [reason |-> "disconnect"]))
                ELSE inbox
    /\ running' = [running EXCEPT ![e] = Append(@, Waiting("disconnect", topic, <<>>))]
    /\ last' = [op |-> "disconnectBegin", e |-> e, ok |-> TRUE, error |-> "none",
                topic |-> topic]
    /\ UNCHANGED <<now, nextKey, keyPairs, wired, pairingVars, sessionVars,
                   events, codec>>

\* the rest of disconnect(): the topic is unsubscribed, the session written
\* as DISCONNECTED and deleted, DELETED emitted (lines 1613-1624)
DisconnectEnd(e, k) ==
    /\ k \in 1..Len(running[e])
    /\ running[e][k].op = "disconnect"
    /\ LET t == running[e][k].topic
       IN  /\ relaySubs' = [relaySubs EXCEPT ![e] = Del(@, t)]
           /\ sessions' = [sessions EXCEPT ![e] = Del(@, t)]
           /\ Emit(e, {TopicEv("session_deleted", t)})
           /\ last' = [op |-> "disconnectEnd", e |-> e, ok |-> TRUE,
                       error |-> "none", topic |-> t]
    /\ running' = [running EXCEPT ![e] = Without(@, k)]
    /\ UNCHANGED <<now, nextKey, keyPairs, wired, initialized, pstore, symKeys,
                   topicCallbacks, pendingApprovals, approval, uris, sinit,
                   nextId, proposals, pendingRequests, response, returned,
                   inbox, codec, cleanupTimer>>

\* handleMessage -> handleSessionDelete(topic, params) up to the await of
\* relay.unsubscribe: the session is found (lines 2021-2028)
HandleSessionDeleteBegin(e, i) ==
    /\ SessionMessage(e, i, "wc_sessionDelete")
    /\ inbox[e][i].topic \in DOMAIN sessions[e]
    /\ Len(running[e]) < MaxRunning
    /\ running' = [running EXCEPT ![e] =
                     Append(@, Waiting("handleSessionDelete", inbox[e][i].topic, <<>>))]
    /\ inbox' = [inbox EXCEPT ![e] = Without(@, i)]
    /\ last' = [op |-> "handleSessionDeleteBegin", e |-> e, ok |-> TRUE,
                error |-> "none", topic |-> inbox[e][i].topic]
    /\ UNCHANGED <<now, nextKey, keyPairs, wired, pairingVars, sessionVars,
                   events, codec>>

\* the rest of handleSessionDelete: the topic is unsubscribed, the session
\* deleted, 'session_deleted' emitted (lines 2029-2035)
HandleSessionDeleteEnd(e, k) ==
    /\ k \in 1..Len(running[e])
    /\ running[e][k].op = "handleSessionDelete"
    /\ LET t == running[e][k].topic
       IN  /\ relaySubs' = [relaySubs EXCEPT ![e] = Del(@, t)]
           /\ sessions' = [sessions EXCEPT ![e] = Del(@, t)]
           /\ Emit(e, {TopicEv("session_deleted", t)})
           /\ last' = [op |-> "handleSessionDeleteEnd", e |-> e, ok |-> TRUE,
                       error |-> "none", topic |-> t]
    /\ running' = [running EXCEPT ![e] = Without(@, k)]
    /\ UNCHANGED <<now, nextKey, keyPairs, wired, initialized, pstore, symKeys,
                   topicCallbacks, pendingApprovals, approval, uris, sinit,
                   nextId, proposals, pendingRequests, response, returned,
                   inbox, codec, cleanupTimer>>

\* the relay hands a client a well-formed message m that some holder of the
\* topic published, whatever the library's own calls would have sent
Forge(e, m) ==
    /\ m.topic \in DOMAIN relaySubs[e]
    /\ Len(inbox[e]) < MaxInbox
    /\ inbox' = [inbox EXCEPT ![e] = Append(@, m)]
    /\ last' = [op |-> "forge", e |-> e, ok |-> TRUE, error |-> "none",
                topic |-> m.topic, method |-> m.method]
    /\ UNCHANGED <<now, nextKey, keyPairs, wired, initialized, pstore, symKeys,
                   topicCallbacks, relaySubs, pendingApprovals, approval, uris,
                   sessionVars, events, codec>>

\* the methods whose handlers read their params, by the kind of topic
PairingJunkMethods ==
    {InvalidJSON, UnknownMethod, "wc_pairingApprove", "wc_pairingReject",
     "wc_pairingUpdate", "wc_pairingDelete", "wc_sessionPropose",
     "wc_sessionSettle", "wc_sessionReject"}
SessionJunkMethods ==
    {InvalidJSON, UnknownMethod, "wc_sessionUpdate", "wc_sessionExtend",
     "wc_sessionDelete", "wc_sessionPing", "wc_sessionRequest",
     "wc_sessionResponse", "wc_sessionEvent"}

\* the relay hands a client a payload that somebody published on a topic the
\* client is subscribed to
Inject(e, topic, method) ==
    /\ topic \in DOMAIN relaySubs[e]
    /\ method \in (IF relaySubs[e][topic] = "pairing"
                   THEN PairingJunkMethods ELSE SessionJunkMethods)
    /\ Len(inbox[e]) < MaxInbox
    /\ inbox' = [inbox EXCEPT ![e] = Append(@, Msg(topic, method, NoParams))]
    /\ last' = [op |-> "inject", e |-> e, ok |-> TRUE, error |-> "none",
                topic |-> topic, method |-> method]
    /\ UNCHANGED <<now, nextKey, keyPairs, wired, initialized, pstore, symKeys,
                   topicCallbacks, relaySubs, pendingApprovals, approval, uris,
                   sessionVars, events, codec>>

\* the callback of a pairing topic is handed such a payload: JSON.parse
\* throws, or store.get finds no pairing, or the switch finds no case, or the
\* handler throws when it reads a field of its params (approve 519, 894,
\* handleUpdate 934, 957-960) or the listener of the SessionManager does
\* (1783, 1813, 1831); the catch of handleRelayMessage logs whatever was
\* thrown (874-876), so the callback does not raise
PairingJunk(e, i) ==
    /\ Deliverable(e, i)
    /\ inbox[e][i].params = NoParams
    /\ inbox[e][i].topic \in DOMAIN relaySubs[e]
    /\ relaySubs[e][inbox[e][i].topic] = "pairing"
    /\ pstore' = [pstore EXCEPT ![e] =
                    IF inbox[e][i].method = InvalidJSON THEN @
                    ELSE StoreAfterGet(@, inbox[e][i].topic)]
    /\ last' = [op |-> "pairingJunk", e |-> e, ok |-> TRUE, error |-> "none",
                topic |-> inbox[e][i].topic, method |-> inbox[e][i].method,
                raised |-> FALSE]
    /\ inbox' = [inbox EXCEPT ![e] = Without(@, i)]
    /\ UNCHANGED <<now, nextKey, keyPairs, wired, initialized, symKeys,
                   topicCallbacks, relaySubs, pendingApprovals, approval, uris,
                   sessionVars, events, codec>>

\* the callback of a session topic is handed such a payload: JSON.parse
\* throws, or the switch finds no case, or the handler finds no session, or
\* throws when it reads a field of its params, which handleSessionDelete
\* does after relay.unsubscribe and store.delete (2027-2033); the catch of
\* handleRelayMessage logs whatever was thrown (1930-1932)
SessionJunk(e, i) ==
    /\ Deliverable(e, i)
    /\ inbox[e][i].params = NoParams
    /\ inbox[e][i].topic \in DOMAIN relaySubs[e]
    /\ relaySubs[e][inbox[e][i].topic] = "session"
    /\ LET t == inbox[e][i].topic
       IN  IF inbox[e][i].method = "wc_sessionDelete" /\ t \in DOMAIN sessions[e]
           THEN /\ relaySubs' = [relaySubs EXCEPT ![e] = Del(@, t)]
                /\ sessions' = [sessions EXCEPT ![e] = Del(@, t)]
           ELSE UNCHANGED <<relaySubs, sessions>>
    /\ last' = [op |-> "sessionJunk", e |-> e, ok |-> TRUE, error |-> "none",
                topic |-> inbox[e][i].topic, method |-> inbox[e][i].method,
                raised |-> FALSE]
    /\ inbox' = [inbox EXCEPT ![e] = Without(@, i)]
    /\ UNCHANGED <<now, nextKey, keyPairs, wired, initialized, pstore, symKeys,
                   topicCallbacks, pendingApprovals, approval, uris, sinit,
                   nextId, proposals, pendingRequests, response, returned,
                   events, codec, cleanupTimer>>

\* the cleanup timer of init() runs cleanupExpired()
CleanupExpired(e, pubOk) ==
    /\ sinit[e]
    /\ ExpiredSessions(e) \cup ExpiredProposals(e) # {}
    /\ ExpiredSessions(e) = {} \/ ~RelayStarted(e) => pubOk
    /\ Disconnected(e, ExpiredSessions(e), "Session expired", pubOk)
    /\ proposals' = [proposals EXCEPT ![e] =
                       [id \in DOMAIN @ \ ExpiredProposals(e) |-> @[id]]]
    /\ last' = [op |-> "cleanupExpired", e |-> e, ok |-> TRUE, error |-> "none"]
    /\ UNCHANGED <<now, nextKey, keyPairs, wired, initialized, pstore, symKeys,
                   topicCallbacks, pendingApprovals, approval, uris, sinit,
                   nextId, pendingRequests, response, returned, codec,
                   cleanupTimer>>

\* the callback of the cleanup interval (lines 2280-2284): cleanupExpired(),
\* whose failure is caught and logged; disconnect() throws at its
\* ensureInitialized when the manager is not initialized
CleanupSweep(e, pubOk) ==
    /\ cleanupTimer[e].armed # {}
    /\ cleanupTimer[e].due
    /\ ExpiredSessions(e) = {} \/ ~sinit[e] \/ ~RelayStarted(e) => pubOk
    /\ cleanupTimer' = [cleanupTimer EXCEPT ![e].due = FALSE]
    /\ IF ExpiredSessions(e) # {} /\ ~sinit[e]
       THEN /\ last' = [op |-> "cleanupSweep", e |-> e, ok |-> FALSE,
                        error |-> "SessionManager not initialized",
                        sessions |-> {}, proposals |-> {}]
            /\ UNCHANGED <<inbox, relaySubs, sessions, events, proposals>>
       ELSE /\ Disconnected(e, ExpiredSessions(e), "Session expired", pubOk)
            /\ proposals' = [proposals EXCEPT ![e] =
                               [id \in DOMAIN @ \ ExpiredProposals(e) |-> @[id]]]
            /\ last' = [op |-> "cleanupSweep", e |-> e, ok |-> TRUE,
                        error |-> "none", sessions |-> ExpiredSessions(e),
                        proposals |-> ExpiredProposals(e)]
    /\ UNCHANGED <<now, nextKey, keyPairs, wired, initialized, pstore, symKeys,
                   topicCallbacks, pendingApprovals, approval, uris, sinit,
                   nextId, pendingRequests, response, returned, codec>>

\* SessionManager.destroy(); pubOk: do the relay.publish calls succeed
SessionDestroy(e, pubOk) ==
    /\ sinit[e]
    /\ Disconnected(e, DOMAIN sessions[e], "Client destroyed", pubOk)
    /\ response' = [response EXCEPT ![e] =
                      [id \in DOMAIN @ |->
                          IF id \in DOMAIN pendingRequests[e]
                          THEN ReqRejected("Client destroyed") ELSE @[id]]]
    /\ pendingRequests' = [pendingRequests EXCEPT ![e] = EmptyMap]
    /\ sinit' = [sinit EXCEPT ![e] = FALSE]
    /\ cleanupTimer' = [cleanupTimer EXCEPT ![e] = StopCleanupTimer(@)]
    /\ last' = [op |-> "sessionDestroy", e |-> e, ok |-> TRUE, error |-> "none"]
    /\ UNCHANGED <<now, nextKey, keyPairs, wired, initialized, pstore, symKeys,
                   topicCallbacks, pendingApprovals, approval, uris, nextId,
                   proposals, returned, codec>>

---------------------------------------------------------------------------
(***************************************************************************)
(* The URI codec on its own: one encode of an input, one decode of the URI. *)
(***************************************************************************)
\* characters of the topics and of the symmetric keys given to the codec
TopicChars == {"a", "2", "@", "?"}
SymKeyChars == {"k", "&", "=", "+", " "}

\* relay descriptors given to the codec
RelayInputs ==
    {Relay(protocol, data) :
        protocol \in {<<>>, <<"i", "r", "n">>, <<"a", "&">>},
        data \in {<<>>, <<"d">>}}

\* the parts a URI that reaches decode from outside (QR code, clipboard) is
\* put together from: a parameter is absent (null), empty, or has a value
URIShape(topic, hasAt, version, hasQuery, relayProtocol, symKey) ==
    [topic |-> topic, hasAt |-> hasAt, version |-> version,
     hasQuery |-> hasQuery, relayProtocol |-> relayProtocol, symKey |-> symKey]

NoShape == URIShape(<<>>, FALSE, <<>>, FALSE, Null, Null)

\* characters of the version field, values of the two required parameters
VersionChars == {"2", "1", "x"}
ParamOptions == {Null, <<>>, <<"k">>}

URIShapes ==
    {URIShape(topic, hasAt, version, hasQuery, relayProtocol, symKey) :
        topic \in {<<>>, <<"a">>}, hasAt \in BOOLEAN,
        version \in SeqsUpTo(VersionChars, MaxStrLen), hasQuery \in BOOLEAN,
        relayProtocol \in ParamOptions, symKey \in ParamOptions}

\* the text of the URI: wc:<topic>[@<version>][?<name>=<value>&..]
URIText(shape) ==
    <<PROTOCOL, ":">> \o shape.topic
        \o (IF shape.hasAt THEN <<"@">> \o shape.version ELSE <<>>)
        \o (IF shape.hasQuery
            THEN <<"?">> \o JoinPairs(
                    (IF shape.relayProtocol = Null THEN <<>>
                     ELSE << <<<<"relay-protocol">>, shape.relayProtocol>> >>)
                    \o (IF shape.symKey = Null THEN <<>>
                        ELSE << <<<<"symKey">>, shape.symKey>> >>))
            ELSE <<>>)

CodecIdle ==
    [phase |-> "idle", topic |-> <<>>, symKey |-> <<>>, relay |-> NoRelay,
     encoded |-> EncodeErr("none"), decoded |-> DecodeErr("none"),
     shape |-> NoShape, received |-> <<>>]

CodecReceived(shape) ==
    [CodecIdle EXCEPT !.phase = "received", !.shape = shape,
                      !.received = URIText(shape)]

CodecInput(topic, symKey, relay) ==
    [CodecIdle EXCEPT !.phase = "input", !.topic = topic, !.symKey = symKey,
                      !.relay = relay]

\* PairingURIUtil.encode of the input
CodecEncode ==
    /\ codec.phase = "input"
    /\ codec' = [codec EXCEPT !.phase = "encoded",
                              !.encoded = Encode(codec.topic, codec.symKey,
                                                 codec.relay)]
    /\ UNCHANGED <<now, nextKey, keyPairs, wired, pairingVars, sessionVars,
                   inbox, events, last, upsets, expiryTimer, slept, running>>

\* PairingURIUtil.decode of the URI encode returned
CodecDecode ==
    /\ codec.phase = "encoded"
    /\ codec.encoded.ok
    /\ codec' = [codec EXCEPT !.phase = "decoded",
                              !.decoded = Decode(codec.encoded.uri)]
    /\ UNCHANGED <<now, nextKey, keyPairs, wired, pairingVars, sessionVars,
                   inbox, events, last, upsets, expiryTimer, slept, running>>

\* PairingURIUtil.decode of a URI that came from outside
CodecParse ==
    /\ codec.phase = "received"
    /\ codec' = [codec EXCEPT !.phase = "parsed",
                              !.decoded = Decode(codec.received)]
    /\ UNCHANGED <<now, nextKey, keyPairs, wired, pairingVars, sessionVars,
                   inbox, events, last, upsets, expiryTimer, slept, running>>

---------------------------------------------------------------------------
(***************************************************************************)
(* Inputs of the session API.                                              *)
(***************************************************************************)
GoodAccount == <<"eip155", ":", "1", ":", "0xabc">>
BadAccount == <<"eip155", ":", "1">>

\* requiredNamespaces of a proposal: the scenario's, and one with two keys
RequiredOptions ==
    {[k \in {"eip155"} |-> Ns({"eip155:1"}, {"eth_sign"}, {}, {})],
     [k \in {"eip155", "solana"} |->
        IF k = "eip155" THEN Ns({"eip155:1"}, {"eth_sign"}, {"chainChanged"}, {})
        ELSE Ns({"solana:1"}, {}, {}, {})]}

\* namespaces a wallet grants
GrantOptions ==
    {[k \in {"eip155"} |-> Ns({"eip155:1"}, {"eth_sign"}, {}, {GoodAccount})],
     [k \in {"eip155", "solana"} |->
        IF k = "eip155"
        THEN Ns({"eip155:1", "eip155:5"}, {"eth_sign", "eth_send"},
                {"chainChanged"}, {GoodAccount})
        ELSE Ns({"solana:1"}, {}, {}, {})],
     [k \in {} |-> Ns({}, {}, {}, {})],
     [k \in {"eip155"} |-> Ns({"eip155:5"}, {"eth_sign"}, {}, {})],
     [k \in {"eip155"} |-> Ns({"eip155:1"}, {"eth_send"}, {}, {})],
     [k \in {"eip155"} |-> Ns({"eip155:1"}, {"eth_sign"}, {}, {BadAccount})],
     [k \in {"eip155", "solana"} |->
        IF k = "eip155" THEN Ns({"eip155:1"}, {"eth_sign"}, {}, {GoodAccount})
        ELSE Ns({"solana:1"}, {}, {}, {})]}

\* the optional relays list of a propose call
RelaysOptions == {NoRelays, Relays(<<Relay(RelayProtocol, <<>>)>>)}

ProposeParams(topic, required, relays) ==
    [pairingTopic |-> topic, requiredNamespaces |-> required, relays |-> relays]

ApproveParams(id, namespaces) == [proposalId |-> id, namespaces |-> namespaces]

\* methods a dapp asks for, results a wallet answers
RequestMethods == {"eth_sign", "eth_call"}
ResultOptions == {<<"0xsig">>}

---------------------------------------------------------------------------
(***************************************************************************)
(* Specifications.                                                         *)
(***************************************************************************)
\* the two clients right after their constructors ran
Init ==
    /\ now = 0
    /\ nextKey = 0
    /\ nextId = 0
    /\ initialized = [e \in Engines |-> FALSE]
    /\ sinit = [e \in Engines |-> FALSE]
    /\ wired = [e \in Engines |-> TRUE]
    /\ keyPairs = [e \in Engines |-> {}]
    /\ pstore = [e \in Engines |-> EmptyMap]
    /\ symKeys = [e \in Engines |-> EmptyMap]
    /\ topicCallbacks = [e \in Engines |-> {}]
    /\ relaySubs = [e \in Engines |-> EmptyMap]
    /\ pendingApprovals = [e \in Engines |-> EmptyMap]
    /\ approval = [e \in Engines |-> EmptyMap]
    /\ proposals = [e \in Engines |-> EmptyMap]
    /\ sessions = [e \in Engines |-> EmptyMap]
    /\ pendingRequests = [e \in Engines |-> EmptyMap]
    /\ response = [e \in Engines |-> EmptyMap]
    /\ returned = [e \in Engines |-> EmptyMap]
    /\ inbox = [e \in Engines |-> <<>>]
    /\ events = [e \in Engines |-> {}]
    /\ uris = {}
    /\ last = Idle
    /\ codec = CodecIdle
    /\ upsets = 0
    /\ expiryTimer = [e \in Engines |-> NoTimer]
    /\ slept = 0
    /\ cleanupTimer = [e \in Engines |-> NoInterval]
    /\ running = [e \in Engines |-> <<>>]

\* the codec with one input to encode
InitURI ==
    /\ Init!1 /\ Init!2 /\ Init!3 /\ Init!4 /\ Init!5 /\ Init!6 /\ Init!7
    /\ Init!8 /\ Init!9 /\ Init!10 /\ Init!11 /\ Init!12 /\ Init!13 /\ Init!14
    /\ Init!15 /\ Init!16 /\ Init!17 /\ Init!18 /\ Init!19 /\ Init!20 /\ Init!21
    /\ Init!22 /\ Init!24 /\ Init!25 /\ Init!26 /\ Init!27 /\ Init!28
    /\ \/ \E topic \in SeqsUpTo(TopicChars, MaxStrLen),
             symKey \in SeqsUpTo(SymKeyChars, MaxStrLen),
             relay \in RelayInputs :
               codec = CodecInput(topic, symKey, relay)
       \/ \E shape \in URIShapes :
               /\ shape.hasAt \/ shape.version = <<>>
               /\ codec = CodecReceived(shape)

NextURI ==
    \/ CodecEncode
    \/ CodecDecode
    \/ CodecParse

\* the publish outcomes a step may draw: a failure while upsets are left
PubChoices == IF upsets < MaxUpsets THEN BOOLEAN ELSE {TRUE}

\* a step whose publish has the outcome pubOk; a call that never reaches
\* relay.publish draws no outcome (its action requires pubOk)
Counted(pubOk) == upsets' = IF pubOk THEN upsets ELSE upsets + 1

Published(pubOk) == Counted(pubOk) /\ UNCHANGED <<expiryTimer, slept, running>>

\* a step that is no upset and leaves the expiry timer alone
Calm == UNCHANGED <<upsets, expiryTimer, slept, running>>

\* a step that is an upset whatever it publishes
Ended == upsets < MaxUpsets /\ upsets' = upsets + 1

\* a step of a call that waits or resumes: no upset, the timers left alone
Quiet == UNCHANGED <<upsets, expiryTimer, slept>>

\* a resumed call whose publish has the outcome pubOk
Resumed(pubOk) == Counted(pubOk) /\ UNCHANGED <<expiryTimer, slept>>

\* an upset that leaves the expiry timer alone
Upset == Ended /\ UNCHANGED <<expiryTimer, slept, running>>

\* errors of a call that finds its pairing or session gone or not yet
\* active, or its client destroyed
FollowOnErrors ==
    {"Pairing not found", "Pairing is not active",
     "PairingManager not initialized", "Relay not started",
     "Session not found"}

\* a call that is an upset when it throws, unless the error is a follow-on
Thrown ==
    /\ upsets' = IF last'.ok \/ last'.error \in FollowOnErrors
                 THEN upsets ELSE upsets + 1
    /\ upsets' <= MaxUpsets
    /\ UNCHANGED <<expiryTimer, slept, running>>

\* a message of the relay reaches a client's PairingManager
PairingDeliver ==
    \E e \in Engines : \E i \in 1..Len(inbox[e]) :
        \/ HandleApprove(e, i) /\ Calm
        \/ HandleReject(e, i) /\ Calm
        \/ HandleDelete(e, i) /\ Calm
        \/ DeliverDropped(e, i) /\ Calm
        \/ Lose(e, i) /\ Upset

\* the pairing API and the approval timer
PairingStep ==
    \/ \E e \in Engines : ~initialized[e] /\ Initialize(e) /\ UNCHANGED upsets
    \/ \E e \in Engines : Create(e) /\ Calm
    \/ \E e \in Engines : \E uri \in uris : \E pubOk \in BOOLEAN :
          Activate(e, uri, pubOk) /\ Thrown
    \/ \E e \in Engines : \E topic \in KnownTopics(e) : \E pubOk \in BOOLEAN :
          PairingReject(e, topic, pubOk) /\ Upset
    \/ \E e \in Engines : \E topic \in KnownTopics(e) : \E pubOk \in BOOLEAN :
          PairingDelete(e, topic, pubOk) /\ Upset
    \/ \E e \in Engines : \E pubOk \in BOOLEAN : PairingDestroy(e, pubOk) /\ Ended
    \/ \E e \in Engines : \E topic \in DOMAIN pendingApprovals[e] :
          ApprovalTimeout(e, topic) /\ Calm
    \/ Tick /\ Calm

NextPairing ==
    \/ PairingStep
    \/ PairingDeliver

\* the life of a client beyond one handshake: a repeated initialize(), long
\* sleeps, the expiry timer, restarts of the process
LifecycleStep ==
    \/ \E e \in Engines : initialized[e] /\ Initialize(e) /\ UNCHANGED upsets
    \/ \E e \in Engines : \E pubOk \in PubChoices :
          ExpirySweep(e, pubOk) /\ Counted(pubOk)
    \/ \E e \in Engines : Restart(e) /\ Ended
    \/ Sleep /\ UNCHANGED upsets

NextLifecycle ==
    \/ PairingStep
    \/ PairingDeliver
    \/ LifecycleStep

\* a message of the relay reaches a client's SessionManager, directly or
\* forwarded by its PairingManager
SessionDeliver ==
    \E e \in Engines : \E i \in 1..Len(inbox[e]) :
        /\ \/ HandleSessionPropose(e, i)
           \/ HandleSessionSettle(e, i)
           \/ HandleSessionReject(e, i)
           \/ HandleSessionRequest(e, i)
           \/ HandleSessionResponse(e, i)
           \/ HandleSessionDelete(e, i)
        /\ Calm

\* the session API and its timers
SessionStep ==
    \/ \E e \in Engines : SessionInit(e) /\ Calm
    \/ \E e \in Engines : \E topic \in KnownTopics(e) :
       \E required \in RequiredOptions : \E relays \in RelaysOptions :
       \E pubOk \in BOOLEAN :
          Propose(e, ProposeParams(topic, required, relays), pubOk) /\ Thrown
    \/ \E e \in Engines : \E id \in 1..nextId : \E namespaces \in GrantOptions :
       \E pubOk \in BOOLEAN :
          Approve(e, ApproveParams(id, namespaces), pubOk) /\ Thrown
    \/ \E e \in Engines : \E id \in 1..nextId : \E pubOk \in BOOLEAN :
          SessionReject(e, id, pubOk) /\ Upset
    \/ \E e \in Engines : \E topic \in KnownSessions(e) :
       \E method \in RequestMethods : \E pubOk \in BOOLEAN :
          Request(e, topic, method, pubOk) /\ Thrown
    \/ \E e \in Engines : \E ev \in KnownRequests(e) :
       \E result \in ResultOptions : \E failed \in BOOLEAN : \E pubOk \in BOOLEAN :
          Respond(e, ev.topic, ev.id, result, failed, pubOk) /\ Thrown
    \/ \E e \in Engines : \E id \in DOMAIN pendingRequests[e] :
          RequestTimeout(e, id) /\ Calm
    \/ \E e \in Engines : \E topic \in KnownSessions(e) : \E pubOk \in BOOLEAN :
          Disconnect(e, topic, pubOk) /\ Upset
    \/ \E e \in Engines : \E pubOk \in PubChoices :
          CleanupExpired(e, pubOk) /\ Published(pubOk)
    \/ \E e \in Engines : \E pubOk \in BOOLEAN : SessionDestroy(e, pubOk) /\ Upset

Next ==
    \/ PairingStep
    \/ PairingDeliver
    \/ SessionStep
    \/ SessionDeliver

\* the upkeep of a pairing: metadata updates and heartbeats
UpkeepStep ==
    \/ \E e \in Engines : \E topic \in KnownTopics(e) :
       \E appMetadata \in AppMetadataOptions : \E pubOk \in BOOLEAN :
          Update(e, topic, appMetadata, pubOk) /\ Upset
    \/ \E e \in Engines : \E topic \in KnownTopics(e) : \E pubOk \in BOOLEAN :
          Ping(e, topic, pubOk) /\ Upset

UpkeepDeliver ==
    \E e \in Engines : \E i \in 1..Len(inbox[e]) :
        \/ HandleUpdate(e, i) /\ Calm
        \/ \E pubOk \in PubChoices : HandlePing(e, i, pubOk) /\ Published(pubOk)
        \/ HandlePong(e, i) /\ Calm

NextUpkeep ==
    \/ PairingStep
    \/ PairingDeliver
    \/ SessionStep
    \/ SessionDeliver
    \/ UpkeepStep
    \/ UpkeepDeliver

\* sessions over a long time: the clients live as in Next until a long sleep
\* (every timestamp is taken before it); then the cleanup intervals fire
ExpiryStep ==
    \/ Sleep /\ UNCHANGED upsets
    \/ \E e \in Engines : \E pubOk \in PubChoices :
          CleanupSweep(e, pubOk) /\ Published(pubOk)

\* no long sleep has passed
FirstEra == slept = 0

ExpiryLife ==
    \/ \E e \in Engines : FirstEra /\ ~initialized[e] /\ Initialize(e) /\ UNCHANGED upsets
    \/ \E e \in Engines : FirstEra /\ Create(e) /\ Calm
    \/ \E e \in Engines : \E uri \in uris : FirstEra /\ Activate(e, uri, TRUE) /\ Calm
    \/ \E e \in Engines : \E i \in 1..Len(inbox[e]) :
          \/ FirstEra /\ HandleApprove(e, i) /\ Calm
          \/ FirstEra /\ HandleSessionPropose(e, i) /\ Calm
          \/ FirstEra /\ HandleSessionSettle(e, i) /\ Calm
    \/ \E e \in Engines : FirstEra /\ SessionInit(e) /\ Calm
    \/ \E e \in Engines : \E topic \in KnownTopics(e) :
       \E required \in RequiredOptions : \E relays \in RelaysOptions :
       \E pubOk \in BOOLEAN :
          FirstEra /\ Propose(e, ProposeParams(topic, required, relays), pubOk) /\ Thrown
    \/ \E e \in Engines : \E id \in 1..nextId : \E namespaces \in GrantOptions :
       \E pubOk \in BOOLEAN :
          FirstEra /\ Approve(e, ApproveParams(id, namespaces), pubOk) /\ Thrown
    \/ FirstEra /\ Tick /\ Calm

NextExpiry ==
    \/ ExpiryLife
    \/ ExpiryStep

SpecExpiry == Init /\ [][NextExpiry]_vars

\* a SessionManager that is destroyed and initialized again, at any time,
\* over the store it had
ReinitStep ==
    \/ \E e \in Engines : \E pubOk \in BOOLEAN : SessionDestroy(e, pubOk) /\ Upset
    \/ \E e \in Engines : ~FirstEra /\ SessionInit(e) /\ Calm

NextReinit ==
    \/ ExpiryLife
    \/ ExpiryStep
    \/ ReinitStep

SpecReinit == Init /\ [][NextReinit]_vars

\* proposals that are answered by reject(): a reject() that succeeds is no
\* upset, so that it can follow an approve() that failed
RejectStep ==
    \/ \E e \in Engines : \E id \in 1..nextId : \E pubOk \in BOOLEAN :
          SessionReject(e, id, pubOk) /\ Thrown
    \/ \E e \in Engines : \E i \in 1..Len(inbox[e]) :
          HandleSessionReject(e, i) /\ Calm

NextReject ==
    \/ ExpiryLife
    \/ RejectStep

SpecReject == Init /\ [][NextReject]_vars

\* clients that are handed payloads no client sends; a run holds one
JunkStep ==
    \/ \E e \in Engines : \E topic \in DOMAIN relaySubs[e] :
       \E method \in PairingJunkMethods \cup SessionJunkMethods :
          Inject(e, topic, method) /\ Upset
    \/ \E e \in Engines : \E i \in 1..Len(inbox[e]) : PairingJunk(e, i) /\ Calm
    \/ \E e \in Engines : \E i \in 1..Len(inbox[e]) : SessionJunk(e, i) /\ Calm
    \/ \E e \in Engines : \E i \in 1..Len(inbox[e]) : DeliverDropped(e, i) /\ Calm
    \/ \E e \in Engines : \E topic \in KnownSessions(e) :
          Disconnect(e, topic, TRUE) /\ Calm

NextJunk ==
    \/ ExpiryLife
    \/ JunkStep

SpecJunk == Init /\ [][NextJunk]_vars

\* granted namespaces cover the required ones, key by key
Covers(namespaces, required) ==
    \A k \in DOMAIN required :
        /\ k \in DOMAIN namespaces
        /\ required[k].chains \subseteq namespaces[k].chains
        /\ required[k].methods \subseteq namespaces[k].methods
        /\ required[k].events \subseteq namespaces[k].events

\* a REQUEST a peer sends for a method it chose itself
ForgedRequests(e) ==
    {Msg(topic, "wc_sessionRequest", [id |-> MaxProposals + MaxRequests,
                                       method |-> method]) :
        topic \in DOMAIN sessions[e], method \in RequestMethods}

\* a SETTLE a peer sends for a stored proposal, with namespaces of its choice
ForgedSettles(e) ==
    {Msg(proposals[e][id].pairingTopic, "wc_sessionSettle",
         [proposalId |-> id, pairingTopic |-> proposals[e][id].pairingTopic,
          relay |-> proposals[e][id].relay, namespaces |-> namespaces,
          requiredNamespaces |-> required, controller |-> PubKey(n),
          expiry |-> CalcExpiry(SESSION_EXPIRY)]) :
        id \in DOMAIN proposals[e], namespaces \in GrantOptions,
        required \in RequiredOptions, n \in UNION {keyPairs[o] : o \in Engines \ {e}}}

\* clients whose peer sends messages of its own making; a run holds one
ForgedStep ==
    \/ \E e \in Engines : \E m \in ForgedRequests(e) : Forge(e, m) /\ Upset
    \/ \E e \in Engines : \E m \in ForgedSettles(e) : Forge(e, m) /\ Upset
    \/ \E e \in Engines : \E i \in 1..Len(inbox[e]) :
          HandleSessionRequest(e, i) /\ Calm

NextForged ==
    \/ ExpiryLife
    \/ ForgedStep

SpecForged == Init /\ [][NextForged]_vars

\* a RESPONSE a holder of a session topic sends for a request that waits
ForgedResponses(e) ==
    {Msg(topic, "wc_sessionResponse",
         [id |-> id, result |-> result, failed |-> FALSE]) :
        topic \in DOMAIN sessions[e], id \in DOMAIN pendingRequests[e],
        result \in ResultOptions}

\* a dapp that holds a session proposes once more on the pairing, is handed
\* a SETTLE that grants what it required, and requests once it holds two
CrossedStep ==
    \/ \E e \in Engines : \E topic \in KnownTopics(e) :
       \E required \in RequiredOptions :
          /\ FirstEra
          /\ DOMAIN sessions[e] # {}
          /\ ProposeWithin(MaxSessions, MaxKeys + 1, e,
                           ProposeParams(topic, required, NoRelays), TRUE)
          /\ Calm
    \/ \E e \in Engines : \E m \in ForgedSettles(e) :
          /\ DOMAIN sessions[e] # {}
          /\ m.params.requiredNamespaces =
                 proposals[e][m.params.proposalId].requiredNamespaces
          /\ Covers(m.params.namespaces, m.params.requiredNamespaces)
          /\ Forge(e, m)
          /\ Upset
    \/ \E e \in Engines : \E topic \in KnownSessions(e) :
       \E method \in RequestMethods :
          /\ Cardinality(DOMAIN sessions[e]) = MaxSessions
          /\ Request(e, topic, method, TRUE)
          /\ Calm
    \/ \E e \in Engines : \E m \in ForgedResponses(e) : Forge(e, m) /\ Calm
    \/ \E e \in Engines : \E i \in 1..Len(inbox[e]) :
          HandleSessionResponse(e, i) /\ Calm

NextCrossed ==
    \/ ExpiryLife
    \/ CrossedStep

SpecCrossed == Init /\ [][NextCrossed]_vars

\* namespaces a client sets by update(), expiries it sets by extend()
UpdateOptions ==
    {[k \in {"eip155"} |-> Ns({"eip155:1"}, {"eth_sign", "eth_send"}, {},
                              {GoodAccount})],
     [k \in {"eip155"} |-> Ns({"eip155:1", "eip155:5"}, {"eth_sign"}, {},
                              {GoodAccount})]}
ExtendOptions == {CalcExpiry(2 * SESSION_EXPIRY), CalcExpiry(3 * SESSION_EXPIRY)}

\* every client is subscribed to the topic and no client's queue is full:
\* what is published on the topic now is delivered
Room(topic) ==
    \A e \in Engines : topic \in DOMAIN relaySubs[e] /\ Len(inbox[e]) < MaxInbox

\* both clients change a session: each calls update() and extend() while it
\* has not yet reported such a change of the session
ChangeStep ==
    \/ \E e \in Engines : \E topic \in KnownSessions(e) :
       \E namespaces \in UpdateOptions : \E pubOk \in BOOLEAN :
          /\ Room(topic)
          /\ TopicEv("session_updated", topic) \notin events[e]
          /\ SessionUpdate(e, topic, namespaces, pubOk)
          /\ Thrown
    \/ \E e \in Engines : \E topic \in KnownSessions(e) :
       \E expiry \in ExtendOptions : \E pubOk \in BOOLEAN :
          /\ Room(topic)
          /\ TopicEv("session_extended", topic) \notin events[e]
          /\ SessionExtend(e, topic, expiry, pubOk)
          /\ Thrown
    \/ \E e \in Engines : \E i \in 1..Len(inbox[e]) :
          HandleSessionUpdate(e, i) /\ Calm
    \/ \E e \in Engines : \E i \in 1..Len(inbox[e]) :
          HandleSessionExtend(e, i) /\ Calm

NextChange ==
    \/ ExpiryLife
    \/ ChangeStep

SpecChange == Init /\ [][NextChange]_vars

\* a wallet whose activate() calls overlap: a call waits for its key pair
\* while another call starts
OverlapStep ==
    \/ \E e \in Engines : \E uri \in uris : ActivateBegin(e, uri) /\ Quiet
    \/ \E e \in Engines : \E k \in 1..MaxRunning : \E pubOk \in PubChoices :
          ActivateEnd(e, k, pubOk) /\ Resumed(pubOk)

NextOverlap ==
    \/ ExpiryLife
    \/ OverlapStep

SpecOverlap == Init /\ [][NextOverlap]_vars

\* clients whose calls and handlers wait for the relay while messages
\* arrive: a dapp pings and requests; a client disconnects and the relay
\* hands it its own DELETE
AwaitStep ==
    \/ \E e \in Engines : \E topic \in KnownSessions(e) :
          SessionPing(e, topic, TRUE) /\ Upset
    \/ \E e \in Engines : \E topic \in KnownSessions(e) :
       \E method \in RequestMethods : Request(e, topic, method, TRUE) /\ Calm
    \/ \E e \in Engines : \E i \in 1..Len(inbox[e]) : \E pubOk \in PubChoices :
          HandleSessionPingBegin(e, i, pubOk) /\ Resumed(pubOk)
    \/ \E e \in Engines : \E k \in 1..MaxRunning : HandleSessionPingEnd(e, k) /\ Quiet
    \/ \E e \in Engines : \E i \in 1..Len(inbox[e]) :
          HandleSessionRequest(e, i) /\ Calm
    \/ \E e \in Engines : \E i \in 1..Len(inbox[e]) : SessionJunk(e, i) /\ Calm
    \/ \E e \in Engines : \E topic \in DOMAIN sessions[e] :
          DisconnectBegin(e, topic, TRUE, TRUE) /\ Ended /\ UNCHANGED <<expiryTimer, slept>>
    \/ \E e \in Engines : \E k \in 1..MaxRunning : DisconnectEnd(e, k) /\ Quiet
    \/ \E e \in Engines : \E i \in 1..Len(inbox[e]) :
          HandleSessionDeleteBegin(e, i) /\ Quiet
    \/ \E e \in Engines : \E k \in 1..MaxRunning :
          HandleSessionDeleteEnd(e, k) /\ Quiet
    \/ \E e \in Engines : \E i \in 1..Len(inbox[e]) : DeliverDropped(e, i) /\ Calm

NextAwait ==
    \/ ExpiryLife
    \/ AwaitStep

SpecAwait == Init /\ [][NextAwait]_vars

\* an initiator whose pairing is approved while its approval timer runs out
\* or while its reject() or delete() of the topic waits for the relay
RaceStep ==
    \/ \E e \in Engines : \E topic \in KnownTopics(e) :
          ApprovalTimeout(e, topic) /\ Calm
    \/ \E e \in Engines : \E topic \in KnownTopics(e) :
          PairingRejectBegin(e, topic) /\ Ended /\ UNCHANGED <<expiryTimer, slept>>
    \/ \E e \in Engines : \E k \in 1..MaxRunning : PairingRejectEnd(e, k) /\ Quiet
    \/ \E e \in Engines : \E topic \in KnownTopics(e) : \E pubOk \in BOOLEAN :
          PairingDeleteBegin(e, topic, pubOk) /\ Ended /\ UNCHANGED <<expiryTimer, slept>>
    \/ \E e \in Engines : \E k \in 1..MaxRunning : PairingDeleteEnd(e, k) /\ Quiet
    \/ \E e \in Engines : \E i \in 1..Len(inbox[e]) : HandleReject(e, i) /\ Calm
    \/ \E e \in Engines : \E i \in 1..Len(inbox[e]) : HandleDelete(e, i) /\ Calm
    \/ \E e \in Engines : \E i \in 1..Len(inbox[e]) : DeliverDropped(e, i) /\ Calm

NextRace ==
    \/ ExpiryLife
    \/ RaceStep

SpecRace == Init /\ [][NextRace]_vars

SpecURI == InitURI /\ [][NextURI]_vars

SpecPairing == Init /\ [][NextPairing]_vars

SpecLifecycle == Init /\ [][NextLifecycle]_vars

SpecUpkeep == Init /\ [][NextUpkeep]_vars

Spec == Init /\ [][Next]_vars

\* the runtime's clock advances and its due timers fire: the setTimeout of
\* create() and of request()
Fairness ==
    /\ WF_vars(Tick /\ Calm)
    /\ WF_vars(\E e \in Engines : \E topic \in DOMAIN pendingApprovals[e] :
                  ApprovalTimeout(e, topic) /\ Calm)
    /\ WF_vars(\E e \in Engines : \E id \in DOMAIN pendingRequests[e] :
                  RequestTimeout(e, id) /\ Calm)

FairSpec == Spec /\ Fairness

---------------------------------------------------------------------------
(***************************************************************************)
(* Properties of the URI codec  (SpecURI).                                 *)
(***************************************************************************)
\* the characters of a string
Chars(str) == {str[i] : i \in 1..Len(str)}

\* decode returned the topic, symKey and relay.protocol that were encoded
RoundTripped ==
    /\ codec.decoded.ok
    /\ codec.decoded.topic = codec.topic
    /\ codec.decoded.symKey = codec.symKey
    /\ codec.decoded.relay.protocol = codec.relay.protocol

\* C10, as stated: for every non-empty topic, non-empty symKey and relay
\* descriptor, decode(encode(topic, symKey, relay)) returns the same topic,
\* symKey and relay.protocol.
C10_RoundTripAny ==
    (codec.phase = "decoded" /\ codec.topic # <<>> /\ codec.symKey # <<>>)
        => RoundTripped

\* C10, amended: the round trip holds for every non-empty topic that holds
\* neither '@' nor '?', every non-empty symKey and every relay descriptor
\* whose protocol is not empty.
C10_RoundTrip ==
    (/\ codec.phase = "decoded"
     /\ codec.topic # <<>>
     /\ codec.symKey # <<>>
     /\ Chars(codec.topic) \cap {"@", "?"} = {}
     /\ codec.relay.protocol # <<>>)
        => RoundTripped

\* a round trip of a symKey and a relay protocol that need escaping
C10_Witness ==
    /\ codec.phase = "decoded"
    /\ codec.topic = <<"a", "2">>
    /\ "&" \in Chars(codec.symKey)
    /\ "&" \in Chars(codec.relay.protocol)
    /\ RoundTripped

\* the parts decode must find in a URI: a topic, the version field 2, and
\* non-empty relay-protocol and symKey parameters
ShapeComplete(shape) ==
    /\ shape.topic # <<>>
    /\ shape.hasAt
    /\ shape.version = NumToStr(VERSION)
    /\ shape.hasQuery
    /\ ~Falsy(shape.relayProtocol)
    /\ ~Falsy(shape.symKey)

\* C11, as stated: decode throws for every URI whose version field is
\* anything other than 2 and for every URI that misses any of topic, version,
\* relay-protocol or symKey; it never returns a PairingURI for such a URI.
C11_DecodeRejects ==
    (codec.phase = "parsed" /\ ~ShapeComplete(codec.shape)) => ~codec.decoded.ok

---------------------------------------------------------------------------
(***************************************************************************)
(* Properties of the pairing handshake  (SpecPairing).                     *)
(***************************************************************************)
\* the events of a name a client emitted for a topic
Emitted(e, name, topic) ==
    {ev \in events[e] : ev.name = name /\ ev.topic = topic}

\* the initiator handled an APPROVE for a pairing whose create() still waits
ApproveDelivered ==
    /\ last.op = "handleApprove"
    /\ last.applied
    /\ last.waiting

\* C1 (state part): when the initiator handles the responder's APPROVE for
\* topic T while the waiter of create() is pending, approval() is resolved to
\* the Pairing T with status ACTIVE and the public key the responder generated
\* in activate() as peer.publicKey.
C1_Resolved ==
    ApproveDelivered =>
        LET a == approval[last.e][last.topic]
        IN  /\ a.state = "resolved"
            /\ a.pairing.topic = last.topic
            /\ a.pairing.status = ACTIVE
            /\ a.pairing.peer # <<>>
            /\ \E ev \in Emitted("B", "pairing_activated", last.topic) :
                  ev.self = a.pairing.peer
            /\ pstore[last.e][last.topic] = a.pairing

\* C1 (step part): an approval() that resolved never changes, so it never
\* rejects.
C1_StaysResolved ==
    \A e \in Engines : \A t \in DOMAIN approval[e] :
        approval[e][t].state = "resolved" =>
            /\ t \in DOMAIN approval'[e]
            /\ approval'[e][t] = approval[e][t]

\* C1: Scenario A, initiator side: an APPROVE delivered before the approval
\* deadline resolves approval() to the ACTIVE Pairing T whose peer.publicKey
\* is the responder's key, and the resolved approval() never rejects.
C1_ApprovalResolves == [](C1_Resolved) /\ [][C1_StaysResolved]_vars

\* the initiator's approval() resolved on the APPROVE of the responder
C1_Witness ==
    /\ ApproveDelivered
    /\ last.e = "A"
    /\ approval["A"][last.topic].state = "resolved"

\* C2, as stated: after B's activate({uri: U}) succeeds for a URI of A's
\* create(), B's stored Pairing for T is ACTIVE and its peer.publicKey is A's
\* public key.
C2_ResponderKnowsPeer ==
    (last.op = "activate" /\ last.ok) =>
        /\ last.topic \in DOMAIN pstore[last.e]
        /\ pstore[last.e][last.topic].status = ACTIVE
        /\ \E ev \in Emitted("A", "pairing_created", last.topic) :
              pstore[last.e][last.topic].peer = ev.self

\* C3, as stated: every stored Pairing is PENDING exactly when its
\* peer.publicKey is empty; no stored ACTIVE Pairing has an empty
\* peer.publicKey.
C3_PendingIffNoPeer ==
    \A e \in Engines : \A t \in DOMAIN pstore[e] :
        (pstore[e][t].status = PENDING) <=> (pstore[e][t].peer = <<>>)

---------------------------------------------------------------------------
(***************************************************************************)
(* Properties of the session handshake  (Spec).                            *)
(***************************************************************************)
\* the SETTLED events a client emitted
Settled(e) == {ev \in events[e] : ev.name = "session_settled"}

\* C4: Scenario B, topic agreement: every SETTLED the proposer A emits, on
\* processing the SETTLE of B's successful approve() of proposal P, carries
\* the topic of the SessionData that approve() returned to B, with
\* A.peer.publicKey = B.self.publicKey = controller and A.self.publicKey =
\* the proposer key of P; A stores that SessionData under the topic.
C4_TopicAgreement ==
    /\ \A ev \in Settled("A") :
          /\ ev.id \in DOMAIN returned["B"]
          /\ ev.id \in DOMAIN returned["A"]
          /\ ev.topic = returned["B"][ev.id].topic
          /\ ev.peer = returned["B"][ev.id].self
          /\ ev.peer = returned["B"][ev.id].controller
          /\ ev.extra = ev.peer
          /\ ev.self = returned["A"][ev.id].proposer
          /\ ev.self = returned["B"][ev.id].peer
    /\ (last.op = "handleSessionSettle" /\ last.settled) =>
          \E ev \in Settled(last.e) :
              /\ ev.id = last.id
              /\ ev.topic \in DOMAIN sessions[last.e]
              /\ sessions[last.e][ev.topic].topic = ev.topic
              /\ sessions[last.e][ev.topic].self = ev.self
              /\ sessions[last.e][ev.topic].peer = ev.peer
              /\ ev.topic \in DOMAIN relaySubs[last.e]

\* the proposer settled the session the responder approved
C4_Witness ==
    /\ last.op = "handleSessionSettle"
    /\ last.settled
    /\ last.e = "A"
    /\ \E ev \in Settled("A") : ev.topic = returned["B"][ev.id].topic

\* C5, as stated: once the PROPOSE of a propose() call, made with or without
\* the optional relays list, is delivered to the responder, the responder
\* stores a Proposal with the same proposalId and emits PROPOSAL for it.
C5_ProposalDelivered ==
    (last.op = "handleSessionPropose" /\ last.listening) =>
        /\ last.id \in DOMAIN proposals[last.e]
        /\ proposals[last.e][last.id].proposalId = last.id
        /\ \E ev \in events[last.e] :
              ev.name = "session_proposal" /\ ev.id = last.id

\* an account of the form namespace:chainId:address, no part empty
WellFormed(account) ==
    LET colons == {i \in 1..Len(account) : account[i] = ":"}
    IN  /\ Cardinality(colons) = 2
        /\ 1 \notin colons
        /\ Len(account) \notin colons
        /\ \A i \in colons : i + 1 \notin colons

ValidationErrors ==
    {"Required namespace missing", "Missing required chains",
     "Missing required methods", "Missing required events"}

C7_RequestResolves ==
    /\ (last.op = "request" /\ last.ok) =>
          /\ last.id \in DOMAIN pendingRequests[last.e]
          /\ pendingRequests[last.e][last.id] = now + REQUEST_TIMEOUT
          /\ response[last.e][last.id] = ReqPending
          /\ \A e \in Engines \ {last.e} : last.id \notin DOMAIN response[e]
          /\ \A e \in Engines : last.id \notin DOMAIN proposals[e]
          /\ \A e \in Engines \ {last.e} :
                \/ last.topic \notin DOMAIN relaySubs[e]
                \/ Len(inbox[e]) = MaxInbox
                \/ \E i \in 1..Len(inbox[e]) :
                      inbox[e][i] = Msg(last.topic, "wc_sessionRequest",
                                        [id |-> last.id, method |-> last.method])
    /\ (last.op = "handleSessionResponse" /\ last.found /\ ~last.failed) =>
          /\ response[last.e][last.id] = ReqResolved(last.result)
          /\ last.id \notin DOMAIN pendingRequests[last.e]

\* the dapp's request resolved to the result the wallet answered
C7_Witness ==
    /\ last.op = "handleSessionResponse"
    /\ last.e = "A"
    /\ last.found
    /\ response["A"][last.id] = ReqResolved(<<"0xsig">>)
    /\ \E ev \in events["B"] : ev.name = "session_request" /\ ev.id = last.id

\* the approval() promise of the pairing topic is still pending
ApprovalWaiting(e, topic) ==
    /\ topic \in DOMAIN approval[e]
    /\ approval[e][topic].state = "pending"

\* the promise of the request id is still pending
RequestWaiting(e, id) ==
    /\ id \in DOMAIN response[e]
    /\ response[e][id].state = "pending"

\* C9: no silent hangs: every waiter registered by create() (approval) or
\* by request() (response) is eventually settled -- resolved by the matching
\* message, or rejected by an explicit reject, by its deadline or by
\* destroy() -- whatever messages are lost and whatever pairings or sessions
\* are deleted meanwhile  (FairSpec).
C9_NoSilentHangs ==
    /\ \A e \in Engines : \A n \in 1..MaxKeys :
          ApprovalWaiting(e, Hash(PubKey(n)))
              ~> ~ApprovalWaiting(e, Hash(PubKey(n)))
    /\ \A e \in Engines : \A id \in 1..(MaxProposals + MaxRequests) :
          RequestWaiting(e, id) ~> ~RequestWaiting(e, id)

\* a request whose session was deleted meanwhile was rejected at its deadline
C9_Witness ==
    /\ last.op = "requestTimeout"
    /\ response[last.e][last.id] = ReqRejected("Request timeout")
    /\ \E ev \in events[last.e] : ev.name = "session_deleted"
    /\ sessions[last.e] = EmptyMap

---------------------------------------------------------------------------
(***************************************************************************)
(* Properties of the life of a client  (SpecLifecycle).                    *)
(***************************************************************************)
\* a step that is a call of initialize() on a client already initialized
\* restores nothing, starts no timer and subscribes nothing
C12_SecondCallNoOp ==
    \A e \in Engines :
        (initialized[e] /\ last'.op = "initialize" /\ last'.e = e) =>
            /\ pstore'[e] = pstore[e]
            /\ symKeys'[e] = symKeys[e]
            /\ relaySubs'[e] = relaySubs[e]
            /\ topicCallbacks'[e] = topicCallbacks[e]
            /\ expiryTimer'[e] = expiryTimer[e]
            /\ initialized'[e]

\* the timer of an initialized client is the last one its runtime started
C12_OneTimer ==
    \A e \in Engines :
        initialized[e] =>
            /\ expiryTimer[e].handle # 0
            /\ expiryTimer[e].handle = expiryTimer[e].issued

\* C12: initialize() is idempotent: a second call on an initialized client
\* performs no pairing restore and starts no expiry timer (the client keeps
\* the one timer its first call started), and no topic gets a second
\* subscription.
C12_InitializeIdempotent == [](C12_OneTimer) /\ [][C12_SecondCallNoOp]_vars

\* initialize() was called again on a client that holds an ACTIVE pairing
C12_Witness ==
    /\ last.op = "initialize"
    /\ last.again
    /\ expiryTimer[last.e].issued = 1
    /\ \E t \in DOMAIN pstore[last.e] :
          /\ pstore[last.e][t].status = ACTIVE
          /\ t \in DOMAIN relaySubs[last.e]

\* what get() and getAll() of a client's store return
StoreView(e) == [t \in StoreAll(pstore[e]) |-> pstore[e][t]]

\* a step that hands an APPROVE to a client whose pairing is missing or no
\* longer PENDING changes neither its store nor its waiters nor its events
C13_NoOpStep ==
    \A e \in Engines :
        (\/ /\ last'.op = "handleApprove"
            /\ last'.e = e
            /\ pstore[e][last'.topic].status # PENDING
         \/ /\ last'.op = "dropped"
            /\ last'.e = e
            /\ last'.method = "wc_pairingApprove") =>
            /\ StoreView(e)' = StoreView(e)
            /\ pendingApprovals' = pendingApprovals
            /\ approval' = approval
            /\ events' = events

\* no client emitted pairing_approved twice for a topic
C13_ApprovedOnce ==
    \A e \in Engines : \A ev \in events[e] :
        Cardinality(Emitted(e, "pairing_approved", ev.topic)) <= 1

\* C13: an inbound APPROVE for a pairing that is missing or whose status is
\* not PENDING is a no-op: the store, the approval waiters and the emitted
\* events are unchanged (so the peer key and the expiry of an ACTIVE pairing
\* stay), and pairing_approved is emitted at most once per pairing.
C13_LateApproveNoOp == [](C13_ApprovedOnce) /\ [][C13_NoOpStep]_vars

\* a second APPROVE reached the initiator after its pairing became ACTIVE
C13_Witness ==
    /\ last.op = "handleApprove"
    /\ ~last.applied
    /\ pstore[last.e][last.topic].status = ACTIVE
    /\ Cardinality(Emitted(last.e, "pairing_approved", last.topic)) = 1

\* the local state of a pairing is gone: record, subscription, symmetric key
Forgotten(e, topic) ==
    /\ topic \notin DOMAIN pstore[e]
    /\ topic \notin DOMAIN relaySubs[e]
    /\ topic \notin topicCallbacks[e]
    /\ topic \notin DOMAIN symKeys[e]

\* C14, as stated: after reject(topic) or delete(topic) completed on an
\* existing pairing its record is absent from the store, its topic is
\* unsubscribed, its symmetric key is removed, no approval waiter of the
\* topic is left pending, and pairing_rejected resp. pairing_deleted has
\* been emitted.
C14_RemovedEverywhere ==
    (last.op \in {"reject", "delete"} /\ last.existed /\ last.ok) =>
        /\ Forgotten(last.e, last.topic)
        /\ last.topic \notin DOMAIN pendingApprovals[last.e]
        /\ ~ApprovalWaiting(last.e, last.topic)
        /\ Emitted(last.e,
                   IF last.op = "reject" THEN "pairing_rejected"
                                         ELSE "pairing_deleted",
                   last.topic) # {}

\* C15, as stated: when the relay refuses the notification of reject() or
\* delete() on an existing pairing, the call still completes the local
\* cleanup and returns without error.
C15_CleanupDespiteRelay ==
    (last.op \in {"reject", "delete"} /\ last.existed /\ ~last.sent) =>
        /\ last.ok
        /\ Forgotten(last.e, last.topic)

\* the topic an accepted URI names
TopicOf(uri) == Decode(uri).topic

\* a step that is activate() for a topic the store already holds fails and
\* changes neither record nor subscription nor key, and publishes nothing
C16_ExistingStep ==
    \A e \in Engines :
        (/\ last'.op = "activate"
         /\ last'.e = e
         /\ Decode(last'.uri).ok
         /\ StoreHas(pstore[e], TopicOf(last'.uri))) =>
            /\ ~last'.ok
            /\ last'.error = "Pairing already exists"
            /\ StoreView(e)' = StoreView(e)
            /\ relaySubs'[e] = relaySubs[e]
            /\ topicCallbacks'[e] = topicCallbacks[e]
            /\ symKeys'[e] = symKeys[e]
            /\ inbox' = inbox
            /\ events' = events

\* C16: activate({uri}) for a topic that already has a Pairing record in
\* the store fails, leaves the existing record, subscription and symmetric
\* key unchanged, and publishes no APPROVE.
C16_ActivateExisting == [][C16_ExistingStep]_vars

\* activate() was refused for a topic whose ACTIVE record is still there
C16_Witness ==
    /\ last.op = "activate"
    /\ last.error = "Pairing already exists"
    /\ StoreHas(pstore[last.e], TopicOf(last.uri))
    /\ pstore[last.e][TopicOf(last.uri)].status = ACTIVE

\* C17: when activate() fails after the Pairing has been persisted (the
\* publish of APPROVE is refused), the partial record is no longer in the
\* store when the error reaches the caller.
C17_PartialRecordRemoved ==
    (last.op = "activate" /\ last.error = "Failed to publish message") =>
        /\ TopicOf(last.uri) \notin DOMAIN pstore[last.e]
        /\ ~StoreHas(pstore[last.e], TopicOf(last.uri))

\* activate() failed at the publish of APPROVE
C17_Witness ==
    /\ last.op = "activate"
    /\ last.error = "Failed to publish message"
    /\ Decode(last.uri).ok
    /\ TopicOf(last.uri) \notin DOMAIN pstore[last.e]
    /\ TopicOf(last.uri) \in DOMAIN symKeys[last.e]

\* the pairing of a topic is one update(), ping() and forward() accept
Usable(e, topic) ==
    /\ StoreHas(pstore[e], topic)
    /\ pstore[e][topic].status = ACTIVE

\* the methods of the messages update(), ping() and forward() publish
UpkeepMethods ==
    {"wc_pairingUpdate", "wc_pairingPing", "wc_sessionPropose",
     "wc_sessionSettle", "wc_sessionReject"}

\* a step that is update() or ping() on a missing or non-ACTIVE pairing, or a
\* propose() that forwards on one, fails, publishes nothing and leaves what
\* the store returns, the subscriptions, the keys and the events as they are
C18_RefusedStep ==
    \A e \in Engines :
        /\ (/\ last'.op \in {"update", "ping"}
            /\ last'.e = e
            /\ ~Usable(e, last'.topic)) =>
               /\ ~last'.ok
               /\ last'.error \in {"Pairing not found", "Pairing is not active"}
               /\ inbox' = inbox
               /\ StoreView(e)' = StoreView(e)
               /\ relaySubs' = relaySubs
               /\ symKeys' = symKeys
               /\ events' = events
        /\ (/\ last'.op = "propose"
            /\ last'.e = e
            /\ initialized[e]
            /\ ~Usable(e, proposals'[e][last'.id].pairingTopic)) =>
               /\ ~last'.ok
               /\ last'.error \in {"Pairing not found", "Pairing is not active"}
               /\ inbox' = inbox
               /\ StoreView(e)' = StoreView(e)

\* a step of a client that puts a message of update(), ping() or forward()
\* on a pairing topic does so for a pairing that is ACTIVE in its store
C18_PublishedStep ==
    \A e \in Engines : \A x \in Engines \ {e} :
        (last'.e = e /\ Len(inbox'[x]) > Len(inbox[x])) =>
            \A k \in (Len(inbox[x]) + 1)..Len(inbox'[x]) :
                inbox'[x][k].method \in UpkeepMethods =>
                    Usable(e, inbox'[x][k].topic)

\* C18: update(), ping() and forward() on a pairing that is missing or not
\* ACTIVE fail, publish nothing and change no stored state; in particular no
\* session PROPOSE, SETTLE or REJECT is published through forward() on a
\* PENDING pairing.
C18_UpkeepNeedsActive == [][C18_RefusedStep /\ C18_PublishedStep]_vars

\* update() was refused on a PENDING pairing that a peer already listens on
C18_Witness ==
    /\ last.op = "update"
    /\ last.error = "Pairing is not active"
    /\ pstore[last.e][last.topic].status = PENDING
    /\ \E x \in Engines \ {last.e} : last.topic \in DOMAIN relaySubs[x]

\* C19, as stated: a non-expired ACTIVE Pairing persisted before a restart
\* is still in the store, with its topic subscribed, after initialize()
\* completes on the new PairingManager over the same store.
C19_SurvivesRestart ==
    [][(last.op = "restart" /\ last'.op = "initialize" /\ last'.e = last.e) =>
          \A t \in last.kept :
              /\ t \in DOMAIN pstore'[last.e]
              /\ pstore'[last.e][t].status = ACTIVE
              /\ t \in DOMAIN relaySubs'[last.e]]_vars

\* C20, as stated: after a run of the expiry timer no Pairing whose expiry
\* has passed is left: get() and getAll() of the store no longer return
\* its record, its topic is unsubscribed and its symmetric key dropped.
C20_SweepRemovesExpired ==
    (last.op = "expirySweep") =>
        \A t \in DOMAIN pstore[last.e] :
            pstore[last.e][t].expiry < NowSeconds =>
                /\ t \notin StoreAll(pstore[last.e])
                /\ t \notin DOMAIN relaySubs[last.e]
                /\ t \notin topicCallbacks[last.e]
                /\ t \notin DOMAIN symKeys[last.e]

---------------------------------------------------------------------------
(***************************************************************************)
(* Properties of the session calls  (Spec).                                *)
(***************************************************************************)
\* the messages a step appended to the relay queue of client x
Appended(x) ==
    IF Len(inbox'[x]) > Len(inbox[x])
    THEN SubSeq(inbox'[x], Len(inbox[x]) + 1, Len(inbox'[x]))
    ELSE <<>>

\* a step that is a successful approve() of proposal id by client e
ApproveReturned(e, id) ==
    /\ last'.op = "approve"
    /\ last'.e = e
    /\ last'.ok
    /\ last'.id = id

\* C22: when approve() returns successfully, a SETTLED SessionData under the
\* derived topic is in the store, the session topic is subscribed, exactly
\* one SETTLE carrying the proposalId has been forwarded on the proposal's
\* pairing topic (it is in the queue of every peer that listens there and
\* has room, and nothing else was sent), and the proposal is gone.
C22_ApprovePostcondition ==
    [][\A e \in Engines : \A id \in 1..(MaxProposals + MaxRequests) :
          ApproveReturned(e, id) =>
              LET proposal == proposals[e][id]
                  session  == returned'[e][id]
              IN  /\ session.topic \in DOMAIN sessions'[e]
                  /\ sessions'[e][session.topic] = session
                  /\ session.status = "settled"
                  /\ session.proposalId = id
                  /\ session.topic =
                         SharedKey(PrivKey(PubNum(session.self)), proposal.proposer)
                  /\ session.topic \in DOMAIN relaySubs'[e]
                  /\ relaySubs'[e][session.topic] = "session"
                  /\ id \notin DOMAIN proposals'[e]
                  /\ \A x \in Engines \ {e} :
                        /\ Len(Appended(x)) <= 1
                        /\ \A k \in 1..Len(Appended(x)) :
                              /\ Appended(x)[k].topic = proposal.pairingTopic
                              /\ Appended(x)[k].method = "wc_sessionSettle"
                              /\ Appended(x)[k].params.proposalId = id
                        /\ (/\ proposal.pairingTopic \in DOMAIN relaySubs[x]
                            /\ Len(inbox[x]) < MaxInbox) => Len(Appended(x)) = 1]_vars

\* approve() returned a session and the proposer holds its SETTLE
C22_Witness ==
    /\ last.op = "approve"
    /\ last.ok
    /\ last.id \in DOMAIN returned[last.e]
    /\ returned[last.e][last.id].topic \in DOMAIN sessions[last.e]
    /\ \E x \in Engines \ {last.e} : \E k \in 1..Len(inbox[x]) :
          /\ inbox[x][k].method = "wc_sessionSettle"
          /\ inbox[x][k].params.proposalId = last.id

\* a step that is a call of approve() for proposal id by client e
ApproveCalled(e, id) ==
    /\ last'.op = "approve"
    /\ last'.e = e
    /\ last'.id = id

\* C23: approve() fails with 'Proposal not found' when no stored proposal
\* has the id and with 'Proposal has expired' when the clock is past the
\* proposal's expiryTimestamp; in both cases no SessionData is stored, no
\* topic is subscribed and nothing is forwarded.
C23_ApproveRefuses ==
    [][\A e \in Engines : \A id \in 1..(MaxProposals + MaxRequests) :
          /\ ApproveCalled(e, id) /\ id \notin DOMAIN proposals[e] =>
                /\ ~last'.ok
                /\ last'.error = "Proposal not found"
                /\ UNCHANGED <<sessions, relaySubs, inbox>>
          /\ (/\ ApproveCalled(e, id)
              /\ id \in DOMAIN proposals[e]
              /\ slept = 0
              /\ now > proposals[e][id].expiryTimestamp) =>
                /\ ~last'.ok
                /\ last'.error = "Proposal has expired"
                /\ UNCHANGED <<sessions, relaySubs, inbox>>]_vars

\* approve() was called on a stored proposal after its five minutes
C23_Witness ==
    /\ last.op = "approve"
    /\ ~last.ok
    /\ last.error = "Proposal has expired"
    /\ last.id \in DOMAIN proposals[last.e]
    /\ now > proposals[last.e][last.id].expiryTimestamp
    /\ sessions[last.e] = EmptyMap

\* the proposer's SessionManager has just processed the REJECT of proposal id
RejectProcessed(id) ==
    /\ last.op = "handleSessionReject"
    /\ last.id = id
    /\ wired[last.e]
    /\ ~IsWallet(last.e)

\* no client stores proposal id or a SessionData made from it
NoTraceOf(id) ==
    \A x \in Engines :
        /\ id \notin DOMAIN proposals[x]
        /\ \A t \in DOMAIN sessions[x] : sessions[x][t].proposalId # id

\* C24: rejection is terminal: once the responder's reject(P) has succeeded
\* and the proposer has processed the REJECT, P is in neither client's
\* store, the proposer has emitted REJECTED, and no SessionData with
\* proposalId P exists on either side (stated for the state in which the
\* REJECT has just been processed, the first of the states the claim covers).
C24_RejectTerminal ==
    \A id \in 1..(MaxProposals + MaxRequests) :
        RejectProcessed(id) =>
            /\ \E ev \in events[last.e] : ev.name = "session_rejected"
            /\ NoTraceOf(id)

\* the same for every later state as well
C24_RejectTerminalForever ==
    \A id \in 1..(MaxProposals + MaxRequests) :
        [](RejectProcessed(id) => [](NoTraceOf(id)))

\* the errors request() throws before it creates its promise
RequestRefusals ==
    {"Session not found", "Session is not settled", "Method not supported"}

\* C25: whenever request() fails (session missing, session not SETTLED,
\* method in no granted namespace, or the relay refusing the publish) the
\* error reaches the caller and no waiter or deadline timer of that request
\* remains registered.
C25_FailedRequestLeavesNothing ==
    [][\A e \in Engines :
          (last'.op = "request" /\ last'.e = e /\ ~last'.ok) =>
              /\ last'.error # "none"
              /\ pendingRequests'[e] = pendingRequests[e]
              /\ last'.error \in RequestRefusals => response'[e] = response[e]
              /\ last'.topic \notin DOMAIN sessions[e] =>
                    last'.error = "Session not found"
              /\ last'.error \notin RequestRefusals =>
                    /\ last'.id \notin DOMAIN pendingRequests'[e]
                    /\ last'.id \notin DOMAIN response[e]
                    /\ response'[e][last'.id] = ReqRejected(last'.error)]_vars

\* a request was refused by the relay and its promise is rejected
C25_Witness ==
    /\ last.op = "request"
    /\ ~last.ok
    /\ last.error = "Failed to publish message"
    /\ response[last.e][last.id] = ReqRejected("Failed to publish message")
    /\ last.id \notin DOMAIN pendingRequests[last.e]

\* the request ids of a run
RequestIds == 1..(MaxProposals + MaxRequests)

\* a step in which client e processes a RESPONSE carrying id
ResponseProcessed(e, id) ==
    /\ last'.op = "handleSessionResponse"
    /\ last'.e = e
    /\ last'.id = id

\* a RESPONSE settles the waiter of its own id, and no other
C26_MatchingStep ==
    \A e \in Engines : \A id \in RequestIds :
        (ResponseProcessed(e, id) /\ id \in DOMAIN pendingRequests[e]) =>
            /\ pendingRequests'[e] = Del(pendingRequests[e], id)
            /\ response'[e][id].state # "pending"
            /\ \A other \in DOMAIN response[e] \ {id} :
                  response'[e][other] = response[e][other]

\* a RESPONSE whose id has no waiter changes nothing but the relay queue
C26_UnmatchedStep ==
    \A e \in Engines : \A id \in RequestIds :
        (ResponseProcessed(e, id) /\ id \notin DOMAIN pendingRequests[e]) =>
            UNCHANGED <<pendingRequests, response, sessions, proposals,
                        returned, events, relaySubs, pstore, symKeys,
                        pendingApprovals, approval, nextId>>

\* a request that was settled stays as it was settled, and a pending request
\* is resolved by a RESPONSE of its id only
C26_SettledOnce ==
    \A e \in Engines : \A id \in DOMAIN response[e] :
        /\ response[e][id].state # "pending" =>
              /\ id \in DOMAIN response'[e]
              /\ response'[e][id] = response[e][id]
              /\ id \notin DOMAIN pendingRequests'[e]
        /\ (/\ response[e][id].state = "pending"
            /\ id \in DOMAIN response'[e]
            /\ response'[e][id].state = "resolved") => ResponseProcessed(e, id)

C28_PairingDestroyed ==
    \A e \in Engines :
        (last'.op = "destroy" /\ last'.e = e) =>
            /\ pendingApprovals'[e] = EmptyMap
            /\ \A t \in DOMAIN pendingApprovals[e] :
                  approval'[e][t] = Rejected("Client destroyed")
            /\ \A t \in DOMAIN approval'[e] : approval'[e][t].state # "pending"
            /\ expiryTimer'[e].handle = 0

\* SessionManager.destroy() leaves no request waiter and no cleanup interval
C28_SessionDestroyed ==
    \A e \in Engines :
        (last'.op = "sessionDestroy" /\ last'.e = e) =>
            /\ pendingRequests'[e] = EmptyMap
            /\ \A id \in DOMAIN pendingRequests[e] :
                  response'[e][id] = ReqRejected("Client destroyed")
            /\ \A id \in DOMAIN response'[e] : response'[e][id].state # "pending"
            /\ cleanupTimer'[e].handle = 0
            /\ cleanupTimer'[e].armed = {}

\* C28: after destroy() of a PairingManager or a SessionManager every
\* outstanding waiter is rejected with 'Client destroyed', the waiter maps
\* are empty, and neither a per-waiter deadline timer nor the hourly sweep
\* timer is armed.
C28_DestroyReleasesAll ==
    [][C28_PairingDestroyed /\ C28_SessionDestroyed]_vars

\* a SessionManager was destroyed while a request was waiting
C28_Witness ==
    /\ last.op = "sessionDestroy"
    /\ cleanupTimer[last.e].issued > 0
    /\ cleanupTimer[last.e].armed = {}
    /\ \E id \in DOMAIN response[last.e] :
          response[last.e][id] = ReqRejected("Client destroyed")

---------------------------------------------------------------------------
(***************************************************************************)
(* Properties of the topic callbacks  (SpecJunk).                          *)
(***************************************************************************)
\* a step in which client e's topic callback ran on a payload no client sends
JunkHandled(e) ==
    /\ last'.op \in {"pairingJunk", "sessionJunk"}
    /\ last'.e = e

\* C29: for every payload delivered on a subscribed pairing or session
\* topic (invalid JSON, an unknown method, missing params, a message for a
\* record that is gone) the topic callback completes without raising, an
\* unknown method changes no stored state, and later messages on that topic
\* are still dispatched: the topic stays subscribed.
C29_CallbackSurvives ==
    [][\A e \in Engines :
          JunkHandled(e) =>
              /\ ~last'.raised
              /\ last'.method = UnknownMethod =>
                    /\ StoreView(e)' = StoreView(e)
                    /\ UNCHANGED <<sessions, proposals, pendingApprovals,
                                   pendingRequests, approval, response,
                                   symKeys, events>>
              /\ last'.topic \in DOMAIN relaySubs'[e]
              /\ relaySubs'[e][last'.topic] = relaySubs[e][last'.topic]]_vars

\* the same, but for a DELETE that carries no params
C29_AllButBareDelete ==
    [][\A e \in Engines :
          (JunkHandled(e) /\ last'.method # "wc_sessionDelete") =>
              /\ ~last'.raised
              /\ last'.method = UnknownMethod =>
                    /\ StoreView(e)' = StoreView(e)
                    /\ UNCHANGED <<sessions, proposals, pendingApprovals,
                                   pendingRequests, approval, response,
                                   symKeys, events>>
              /\ last'.topic \in DOMAIN relaySubs'[e]
              /\ relaySubs'[e][last'.topic] = relaySubs[e][last'.topic]]_vars

---------------------------------------------------------------------------
(***************************************************************************)
(* Properties of sessions over a long time  (SpecExpiry).                  *)
(***************************************************************************)
\* a session approve() made here (the client is its controller) whose
\* lifetime has passed: Date.now() is at or past the instant of its creation
\* plus SESSION_EXPIRY seconds, the instant calcExpiry returned
Lapsed(session) ==
    /\ session.status = "settled"
    /\ session.controller = session.self
    /\ NowAtLeast(session.expiry)

\* after a run of the cleanup no session whose lifetime has passed is left
C21_NoneLeft ==
    (last.op = "cleanupSweep") =>
        \A t \in DOMAIN sessions[last.e] : ~Lapsed(sessions[last.e][t])

\* a run of the cleanup removes no session of approve() before its lifetime
\* has passed
C21_NoneEarly ==
    \A e \in Engines :
        (last'.op = "cleanupSweep" /\ last'.e = e) =>
            \A t \in DOMAIN sessions[e] \ DOMAIN sessions'[e] :
                sessions[e][t].controller = sessions[e][t].self =>
                    Lapsed(sessions[e][t])

\* C21, as stated: session expiry uses one time unit end to end: the first
\* cleanup at or after the creation time of a session of approve() plus
\* 7 days disconnects and removes it, and no earlier cleanup does.
C21_ExpiryOneUnit == [](C21_NoneLeft) /\ [][C21_NoneEarly]_vars

\* a stored SETTLED session whose expiry has passed
PastExpiry(session) ==
    /\ session.status = "settled"
    /\ NowAtLeast(session.expiry)

\* C30: init(relay) succeeds whatever the store holds: SETTLED sessions and
\* proposals past their expiry are removed by its sweep, the remaining
\* SETTLED sessions are subscribed again, the cleanup timer is started and
\* the SessionManager is left initialized.
C30_InitOverAnyStore ==
    [][\A e \in Engines :
          (last'.op = "init" /\ last'.e = e) =>
              /\ last'.ok
              /\ sinit'[e]
              /\ cleanupTimer'[e].armed # {}
              /\ \A t \in DOMAIN sessions'[e] :
                    /\ ~PastExpiry(sessions'[e][t])
                    /\ sessions'[e][t].status = "settled" =>
                          t \in DOMAIN relaySubs'[e]
              /\ \A id \in DOMAIN proposals'[e] :
                    ~NowAtLeast(proposals'[e][id].expiryTimestamp)]_vars

---------------------------------------------------------------------------
(***************************************************************************)
(* Properties of calls and handlers that overlap.                          *)
(***************************************************************************)
\* an approve() of client e that threw changed neither the session store nor
\* the subscriptions of e
C35_FailedApproveStep ==
    \A e \in Engines :
        (last'.op = "approve" /\ last'.e = e /\ ~last'.ok) =>
            /\ sessions'[e] = sessions[e]
            /\ relaySubs'[e] = relaySubs[e]

\* no two stored sessions of a client come from one proposal
C35_OneSessionPerProposal ==
    \A e \in Engines : \A t1, t2 \in DOMAIN sessions[e] :
        sessions[e][t1].proposalId = sessions[e][t2].proposalId => t1 = t2

\* C35: approve() is all-or-nothing: when it fails at any step, forwarding
\* the SETTLE included, no SessionData and no session-topic subscription of
\* that call remain, so that a retry for the same proposalId never leaves
\* two sessions that come from one proposal.
C35_ApproveAllOrNothing ==
    [](C35_OneSessionPerProposal) /\ [][C35_FailedApproveStep]_vars

\* C37: a client emits the REQUEST event only for an inbound REQUEST whose
\* method is listed in the granted namespaces of the SETTLED session on whose
\* topic it arrived; a REQUEST for a method that was not granted is dropped.
C37_RequestOnlyIfGranted ==
    [][\A e \in Engines : \A ev \in events'[e] \ events[e] :
          ev.name = "session_request" =>
              /\ ev.topic \in DOMAIN sessions[e]
              /\ sessions[e][ev.topic].status = "settled"
              /\ IsSupported(sessions[e][ev.topic], ev.extra[1])]_vars

\* C40: on the proposer's side a SessionData is created from an inbound
\* SETTLE only if the granted namespaces cover the proposal's required ones,
\* key by key, and the requiredNamespaces it stores are those of the
\* proposal, not those the SETTLE carries.
C40_SettleChecked ==
    [][\A e \in Engines :
          (last'.op = "handleSessionSettle" /\ last'.e = e /\ last'.settled) =>
              \A t \in DOMAIN sessions'[e] :
                  (t \notin DOMAIN sessions[e] \/ sessions'[e][t] # sessions[e][t]) =>
                      LET required ==
                              proposals[e][sessions'[e][t].proposalId].requiredNamespaces
                      IN  /\ Covers(sessions'[e][t].namespaces, required)
                          /\ sessions'[e][t].requiredNamespaces = required]_vars

\* the topics on which the REQUEST with this id travels or was delivered
RequestTopics(id) ==
    {ev.topic : ev \in {x \in UNION {events[o] : o \in Engines} :
                            x.name = "session_request" /\ x.id = id}}
        \cup {inbox[o][i].topic : <<o, i>> \in
                  {x \in Engines \X (1..MaxInbox) :
                      /\ x[2] <= Len(inbox[x[1]])
                      /\ inbox[x[1]][x[2]].method = "wc_sessionRequest"
                      /\ inbox[x[1]][x[2]].params # NoParams
                      /\ inbox[x[1]][x[2]].params.id = id}}

\* C36: a request that waits, sent on session topic S, is resolved or
\* rejected by a RESPONSE only if that RESPONSE was received on S: a RESPONSE
\* with the same id on another session topic of the client does not settle it.
C36_ResponseOnItsTopic ==
    [][\A e \in Engines :
          (last'.op = "handleSessionResponse" /\ last'.e = e /\ last'.found) =>
              RequestTopics(last'.id) \subseteq {last'.topic}]_vars

\* an UPDATE or EXTEND of the topic is on its way to some client
ChangeInFlight(t) ==
    \E e \in Engines : \E i \in 1..Len(inbox[e]) :
        /\ inbox[e][i].topic = t
        /\ inbox[e][i].method \in {"wc_sessionUpdate", "wc_sessionExtend"}

\* C38: when both peers of a session call update() at the same time with
\* different namespaces and every UPDATE is delivered, both end with the
\* same namespaces for the session; likewise the expiry after extend().
C38_ChangesConverge ==
    upsets = 0 =>
        \A t \in DOMAIN sessions["A"] \cap DOMAIN sessions["B"] :
            ~ChangeInFlight(t) =>
                /\ sessions["A"][t].namespaces = sessions["B"][t].namespaces
                /\ sessions["A"][t].expiry = sessions["B"][t].expiry

\* C33: of two activate() calls of one PairingManager for the same URI that
\* overlap at most one succeeds; the other fails with 'Pairing already
\* exists': an activate() that succeeds finds no record of its topic, so one
\* key pair becomes the self key of the stored pairing and one APPROVE is
\* published.
C33_OneActivation ==
    [][\A e \in Engines :
          (last'.op = "activate" /\ last'.e = e /\ last'.ok) =>
              ~StoreHas(pstore[e], last'.topic)]_vars

\* the handlers of the messages of a session topic
SessionHandlers ==
    {"handleSessionPing", "handleSessionRequest", "handleSessionDeleteBegin",
     "handleSessionDelete", "handleSessionUpdate", "handleSessionExtend",
     "handleSessionResponse"}

\* a handler of a message of the topic waits at an await of client e
HandlerWaits(e, t) ==
    \E k \in 1..Len(running[e]) :
        /\ running[e][k].topic = t
        /\ running[e][k].op \in {"handleSessionPing", "handleSessionDelete"}

\* C31: the messages of one topic take effect in the order of their
\* delivery: the handler of a message starts only when the handler of every
\* earlier message of the topic has made all its state changes and emitted
\* its events, so that handlers of one topic do not interleave at an await.
C31_HandlersInOrder ==
    [][\A e \in Engines :
          (last' # last /\ last'.op \in SessionHandlers /\ last'.e = e) =>
              ~HandlerWaits(e, last'.topic)]_vars

\* C39: when the relay hands a client its own DELETE, that echo does not
\* disturb disconnect(): DELETED is emitted once for the topic, by a step
\* that finds it not yet emitted, and the session is not stored again.
C39_EchoHarmless ==
    [][\A e \in Engines :
          /\ (last'.op \in {"disconnectEnd", "handleSessionDeleteEnd"}
                 /\ last'.e = e /\ running'[e] # running[e]) =>
                 TopicEv("session_deleted", last'.topic) \notin events[e]
          /\ \A t \in DOMAIN sessions'[e] \ DOMAIN sessions[e] :
                 TopicEv("session_deleted", t) \notin events[e]]_vars

\* C34: whenever no operation of an initialized PairingManager is in
\* progress, the topics with a registered subscription callback are the
\* topics of the stored pairings, and every stored pairing has a cached
\* symmetric key; also after initialize() restored the persisted pairings,
\* after an activate() that failed and after a pairing expired.
C34_CallbacksMatchStore ==
    \A e \in Engines :
        (initialized[e] /\ running[e] = <<>>) =>
            /\ topicCallbacks[e] = StoreAll(pstore[e])
            /\ StoreAll(pstore[e]) \subseteq DOMAIN symKeys[e]

\* C32: an APPROVE that is processed while the approval deadline passes, or
\* while reject() or delete() of the topic runs, does not bring the pairing
\* back: once approval() of a topic has rejected, the store holds no record
\* of the topic, and no pairing is stored as ACTIVE while its topic is
\* unsubscribed.
C32_NoResurrection ==
    \A e \in Engines :
        /\ \A t \in DOMAIN approval[e] :
               approval[e][t].state = "rejected" => t \notin DOMAIN pstore[e]
        /\ \A t \in DOMAIN pstore[e] :
               pstore[e][t].status = ACTIVE => t \in DOMAIN relaySubs[e]

\* an APPROVE reached the initiator after approval() had rejected, and was
\* dropped
C32_Witness ==
    /\ last.op = "dropped"
    /\ last.method = "wc_pairingApprove"
    /\ last.topic \in DOMAIN approval[last.e]
    /\ approval[last.e][last.topic].state = "rejected"

=============================================================================
